---------------------------- MODULE Spec2Model ----------------------------
(***************************************************************************)
(* A model of the Morpheus browser extension's stats aggregation and       *)
(* intervention-decision engine: StatsDatabase (lib/stats-db.ts), the      *)
(* background service worker (background/service-worker.ts) and the        *)
(* InterventionManager (background/intent-engine.ts).                      *)
(*                                                                         *)
(* Times are milliseconds, as in the source.  A calendar day (the          *)
(* "YYYY-MM-DD" key of a DailyStats record) is modelled by its day number: *)
(* the ISO date strings of valid dates order exactly as the day numbers.   *)
(* The double arithmetic of the productivity score is modelled by exact    *)
(* rational arithmetic on (numerator, denominator) pairs.                  *)
(***************************************************************************)
EXTENDS Integers, Sequences, FiniteSets, TLC

VARIABLES
    today,               \* the UTC calendar day of the wall clock
    dailyStats,          \* object store "dailyStats": date -> DailyStats
    siteVisits,          \* object store "siteVisits" (autoIncrement order)
    interventionEvents,  \* object store "interventionEvents"
    pending,             \* updateDailyStats* calls in flight
    now,                 \* Date.now(), in ms
    storedLastInterventionTime, \* chrome.storage.local "lastInterventionTime"
    lastInterventionTime,       \* InterventionManager.lastInterventionTime
    userState,           \* InterventionManager.userState
    sessionStart,        \* BehaviorMonitor.sessionStart
    checks,              \* intervention checks in flight
    delivered,           \* the times at which the sink received SHOW_INTERVENTION
    checksStarted,       \* how many intervention checks were started
    interventions,       \* morpheus-db store "interventions", by id
    interventionQueue,   \* InterventionManager.interventionQueue (ids)
    shown,               \* the ids of the interventions the sink received
    engineDailyStats,    \* morpheus-db store "dailyStats": date -> record
    decideInput,         \* the arguments of a determineIntervention call
    decision,            \* what that call returned
    utcHour,             \* the UTC hour of the day of the wall clock
    timezone,            \* the local time zone: its UTC offsets and their change
    streakCall,          \* a getCurrentStreak call: its position and locals
    classifyUrl,         \* the argument of a categorizeURL call
    classified,          \* what that call returned
    currentTab,          \* service worker: the tab being timed, or NoTab
    tabStartTime,        \* service worker: when its timing started
    handlers,            \* event handlers suspended at an await
    recorded,            \* the visits handed to recordSiteVisit: tab, start, end
    shortClosed,         \* whether a handler closed a dwell of 5000 ms or less
    escaped,             \* the steps whose rejection no handler received
    caughtErrors,        \* the steps whose rejection a catch block received
    overlayIntervention, \* InterventionWrapper's state: the intervention shown
    timers,              \* the overlay's setTimeout callbacks not yet run
    responses,           \* the INTERVENTION_RESPONSE messages sent
    callArgs,            \* the arguments of a call of a query or pure function
    callResult,          \* what that call returned
    currentIntent,       \* IntentEngine.currentIntent, or NoIntent
    lastAnalysis,        \* IntentEngine.lastAnalysis
    activeTab,           \* BehaviorMonitor.activeTab, or NoActiveTab
    monitorTabStartTime, \* BehaviorMonitor.tabStartTime
    sessionPatterns      \* BehaviorMonitor.sessionPatterns

aggVars == <<today, dailyStats, siteVisits, interventionEvents, pending>>
managerStore == <<interventions, interventionQueue, shown, engineDailyStats>>
engineVars == <<now, storedLastInterventionTime, lastInterventionTime, userState,
                sessionStart, checks, delivered, checksStarted, managerStore>>
decideVars == <<decideInput, decision>>
streakVars == <<utcHour, timezone, streakCall>>
classifyVars == <<classifyUrl, classified>>
trackerVars == <<currentTab, tabStartTime, handlers, recorded, shortClosed>>
failureVars == <<escaped, caughtErrors>>
overlayVars == <<overlayIntervention, timers, responses>>
callVars == <<callArgs, callResult>>
intentVars == <<currentIntent, lastAnalysis>>
monitorVars == <<activeTab, monitorTabStartTime, sessionPatterns>>
lateVars == <<failureVars, overlayVars, callVars, intentVars, monitorVars>>
\* the variables of the components outside the aggregator and the engine
auxVars == <<classifyVars, trackerVars, lateVars>>

vars == <<aggVars, engineVars, decideVars, streakVars, auxVars>>

----------------------------------------------------------------------------
(* Bounds of the model *)

\* recordings (visits and intervention events) made in one behaviour
MaxRecordings == 2
\* the last calendar day the clock reaches
MaxDay == 2

\* the dwell times of the recorded visits (all above the 5000 ms threshold)
Durations == {6000, 18000}

Categories == {"productive", "neutral", "distraction"}

\* InterventionEvent.outcome as declared by StatsDatabase
DeclaredOutcomes == {"accepted", "dismissed", "snoozed"}
\* what the on-page overlay puts in INTERVENTION_RESPONSE.outcome:
\* "dismissed" (handleDismiss) or the type of the intervention's action
\* (handleAction), such as the show_overlay of a distraction_warning
SinkOutcomes == {"dismissed", "show_overlay"}
Outcomes == DeclaredOutcomes \cup SinkOutcomes

----------------------------------------------------------------------------
(* Helpers *)

Max(a, b) == IF a >= b THEN a ELSE b
Min(a, b) == IF a <= b THEN a ELSE b

\* the sequence s without its i-th element
RemoveAt(s, i) == SubSeq(s, 1, i - 1) \o SubSeq(s, i + 1, Len(s))

\* JavaScript Math.round of the rational num/den (den > 0): the nearest
\* integer, a tie going up
MathRound(num, den) ==
    (num \div den) + (IF 2 * (num % den) >= den THEN 1 ELSE 0)

----------------------------------------------------------------------------
(* StatsDatabase *)

\* getDailyStats: the record created when the date has none
NewDailyStats(date) ==
    [ date                   |-> date,
      focusTimeMs            |-> 0,
      distractionTimeMs      |-> 0,
      neutralTimeMs          |-> 0,
      interventionsTriggered |-> 0,
      interventionsAccepted  |-> 0,
      interventionsDismissed |-> 0,
      interventionsSnoozed   |-> 0,
      productivityScore      |-> 0,
      sitesByCategory        |-> << >> ]

\* getDailyStats: the stored record, or a new one (which is not stored)
GetDailyStats(date) ==
    IF date \in DOMAIN dailyStats THEN dailyStats[date] ELSE NewDailyStats(date)

RECURSIVE GetStatsForRange(_, _)
\* getStatsForRange: index.getAll(IDBKeyRange.bound(startDate, endDate)), the
\* stored records whose date lies in the range, in date order
GetStatsForRange(startDate, endDate) ==
    IF startDate > endDate THEN << >>
    ELSE (IF startDate \in DOMAIN dailyStats
          THEN <<dailyStats[startDate]>> ELSE << >>)
         \o GetStatsForRange(startDate + 1, endDate)

TotalTime(stats) ==
    stats.focusTimeMs + stats.distractionTimeMs + stats.neutralTimeMs

ScoreNoClamp(num, den) == MathRound(num, den)

\* Math.round(Math.max(0, Math.min(100, raw))) of a rational raw = num/den
RoundClamp(num, den) ==
    IF num < 0 THEN 0
    ELSE IF num \div den >= 100 THEN 100
    ELSE MathRound(num, den)

ScoreWeakPenalty(stats, divisor) ==
    LET totalTime == TotalTime(stats)
        bonusNum  == Min(10 * stats.interventionsAccepted, 10 * divisor)
        rawNum    == (100 * stats.focusTimeMs - 20 * stats.distractionTimeMs) * divisor
                     + bonusNum * totalTime
    IN  RoundClamp(rawNum, totalTime * divisor)

\* focusRatio * 100 - distractionPenalty + interventionBonus, rounded and
\* clamped, where
\*   focusRatio         = focusTimeMs / totalTime
\*   distractionPenalty = (distractionTimeMs / totalTime) * 30
\*   interventionBonus  = min((interventionsAccepted / divisor) * 10, 10)
\* over the common denominator totalTime * divisor
Score(stats, divisor) ==
    LET totalTime == TotalTime(stats)
        bonusNum  == Min(10 * stats.interventionsAccepted, 10 * divisor)
        rawNum    == (100 * stats.focusTimeMs - 30 * stats.distractionTimeMs) * divisor
                     + bonusNum * totalTime
    IN  RoundClamp(rawNum, totalTime * divisor)

\* updateDailyStats: "Calculate productivity score"
VisitScore(stats) ==
    IF TotalTime(stats) > 0
    THEN Score(stats, Max(stats.interventionsTriggered, 1))
    ELSE stats.productivityScore

\* the score recalculated also when no time was recorded, the two ratios
\* taken as 0: the intervention bonus alone
InterventionScoreAlways(stats) ==
    IF TotalTime(stats) > 0
    THEN Score(stats, stats.interventionsTriggered)
    ELSE RoundClamp(Min(10 * stats.interventionsAccepted,
                        10 * stats.interventionsTriggered),
                    stats.interventionsTriggered)

\* updateDailyStatsWithIntervention: "Recalculate productivity score"
InterventionScore(stats) ==
    IF TotalTime(stats) > 0
    THEN Score(stats, stats.interventionsTriggered)
    ELSE stats.productivityScore

AddTimeOverwriting(stats, category, durationMs) ==
    IF category = "productive"
    THEN [stats EXCEPT !.focusTimeMs = durationMs]
    ELSE IF category = "distraction"
    THEN [stats EXCEPT !.distractionTimeMs = durationMs]
    ELSE [stats EXCEPT !.neutralTimeMs = durationMs]

\* updateDailyStats: "Update time by category"
AddTime(stats, category, durationMs) ==
    IF category = "productive"
    THEN [stats EXCEPT !.focusTimeMs = @ + durationMs]
    ELSE IF category = "distraction"
    THEN [stats EXCEPT !.distractionTimeMs = @ + durationMs]
    ELSE [stats EXCEPT !.neutralTimeMs = @ + durationMs]

\* updateDailyStats, from the record read to the record put
VisitUpdate(stats, category, durationMs) ==
    LET s == AddTime(stats, category, durationMs)
    IN  [s EXCEPT !.productivityScore = VisitScore(s)]

\* updateDailyStatsWithIntervention: the counters
CountOutcome(stats, outcome) ==
    LET s == [stats EXCEPT !.interventionsTriggered = @ + 1]
    IN  IF outcome = "accepted"
        THEN [s EXCEPT !.interventionsAccepted = @ + 1]
        ELSE IF outcome = "dismissed"
        THEN [s EXCEPT !.interventionsDismissed = @ + 1]
        ELSE IF outcome = "snoozed"
        THEN [s EXCEPT !.interventionsSnoozed = @ + 1]
        ELSE s

\* updateDailyStatsWithIntervention, from the record read to the record put
InterventionUpdate(stats, outcome) ==
    LET s == CountOutcome(stats, outcome)
    IN  [s EXCEPT !.productivityScore = InterventionScore(s)]

Recordings == Len(siteVisits) + Len(interventionEvents)

\* recordTabVisit -> recordSiteVisit: the visit is added to siteVisits under
\* the current UTC date; the add's onsuccess starts updateDailyStats (which
\* is not awaited) and resolves
RecordSiteVisit(category, durationMs) ==
    /\ Recordings < MaxRecordings
    /\ siteVisits' = Append(siteVisits,
           [date |-> today, category |-> category, durationMs |-> durationMs])
    /\ pending' = Append(pending,
           [kind |-> "visit", pc |-> "get", date |-> today,
            category |-> category, durationMs |-> durationMs,
            outcome |-> "none", stats |-> NewDailyStats(today)])
    /\ UNCHANGED <<today, dailyStats, interventionEvents>>

\* INTERVENTION_RESPONSE -> recordIntervention: the event is added under the
\* current UTC date; onsuccess starts updateDailyStatsWithIntervention
RecordIntervention(outcome) ==
    /\ Recordings < MaxRecordings
    /\ interventionEvents' = Append(interventionEvents,
           [date |-> today, outcome |-> outcome])
    /\ pending' = Append(pending,
           [kind |-> "intervention", pc |-> "get", date |-> today,
            category |-> "none", durationMs |-> 0,
            outcome |-> outcome, stats |-> NewDailyStats(today)])
    /\ UNCHANGED <<today, dailyStats, siteVisits>>

\* const stats = await this.getDailyStats(date): the readonly transaction
ReadDailyStats(i) ==
    /\ pending[i].pc = "get"
    /\ pending' = [pending EXCEPT ![i].stats = GetDailyStats(pending[i].date),
                                  ![i].pc = "put"]
    /\ UNCHANGED <<today, dailyStats, siteVisits, interventionEvents>>

\* the code after the await, to store.put(stats) in a readwrite transaction
PutDailyStats(i) ==
    /\ pending[i].pc = "put"
    /\ LET call == pending[i]
           stats == IF call.kind = "visit"
                    THEN VisitUpdate(call.stats, call.category, call.durationMs)
                    ELSE InterventionUpdate(call.stats, call.outcome)
       IN  dailyStats' = [d \in DOMAIN dailyStats \cup {call.date} |->
                             IF d = call.date THEN stats ELSE dailyStats[d]]
    /\ pending' = RemoveAt(pending, i)
    /\ UNCHANGED <<today, siteVisits, interventionEvents>>

\* the wall clock passes midnight (UTC)
Midnight ==
    /\ today < MaxDay
    /\ today' = today + 1
    /\ UNCHANGED <<dailyStats, siteVisits, interventionEvents, pending>>

InitAgg ==
    /\ today = 1
    /\ dailyStats = << >>
    /\ siteVisits = << >>
    /\ interventionEvents = << >>
    /\ pending = << >>

NextAgg ==
    \/ \E c \in Categories, d \in Durations : RecordSiteVisit(c, d)
    \/ \E o \in Outcomes : RecordIntervention(o)
    \/ \E i \in DOMAIN pending : ReadDailyStats(i)
    \/ \E i \in DOMAIN pending : PutDailyStats(i)
    \/ Midnight

----------------------------------------------------------------------------
(* Strings are sequences of characters *)

UpperCaseLetters ==
    <<"A", "B", "C", "D", "E", "F", "G", "H", "I", "J", "K", "L", "M",
      "N", "O", "P", "Q", "R", "S", "T", "U", "V", "W", "X", "Y", "Z">>

LowerCaseLetters ==
    <<"a", "b", "c", "d", "e", "f", "g", "h", "i", "j", "k", "l", "m",
      "n", "o", "p", "q", "r", "s", "t", "u", "v", "w", "x", "y", "z">>

ToLower(c) ==
    IF \E i \in DOMAIN UpperCaseLetters : UpperCaseLetters[i] = c
    THEN LowerCaseLetters[CHOOSE i \in DOMAIN UpperCaseLetters : UpperCaseLetters[i] = c]
    ELSE c

\* String.prototype.toLowerCase
LowerCase(s) == [i \in DOMAIN s |-> ToLower(s[i])]

\* String.prototype.includes
Includes(s, k) ==
    \E i \in 0..(Len(s) - Len(k)) : SubSeq(s, i + 1, i + Len(k)) = k

RECURSIVE SplitSpace(_)
\* String.prototype.split(" ")
SplitSpace(s) ==
    IF \A i \in DOMAIN s : s[i] # " "
    THEN << s >>
    ELSE LET i == CHOOSE j \in DOMAIN s :
                      s[j] = " " /\ \A k \in 1..(j - 1) : s[k] # " "
         IN  << SubSeq(s, 1, i - 1) >> \o SplitSpace(SubSeq(s, i + 1, Len(s)))

\* Array.prototype.slice(-n)
LastN(s, n) == SubSeq(s, Max(1, Len(s) - n + 1), Len(s))

----------------------------------------------------------------------------
(* service worker: categorizeURL *)

DistractionSites ==
    << <<"y", "o", "u", "t", "u", "b", "e", ".", "c", "o", "m">>,
       <<"y", "o", "u", "t", "u", ".", "b", "e">>,
       <<"n", "e", "t", "f", "l", "i", "x", ".", "c", "o", "m">>,
       <<"i", "n", "s", "t", "a", "g", "r", "a", "m", ".", "c", "o", "m">>,
       <<"t", "i", "k", "t", "o", "k", ".", "c", "o", "m">>,
       <<"f", "a", "c", "e", "b", "o", "o", "k", ".", "c", "o", "m">>,
       <<"f", "b", ".", "c", "o", "m">>,
       <<"t", "w", "i", "t", "t", "e", "r", ".", "c", "o", "m">>,
       <<"x", ".", "c", "o", "m">>,
       <<"r", "e", "d", "d", "i", "t", ".", "c", "o", "m">>,
       <<"t", "w", "i", "t", "c", "h", ".", "t", "v">>,
       <<"d", "i", "s", "c", "o", "r", "d", ".", "c", "o", "m">>,
       <<"s", "n", "a", "p", "c", "h", "a", "t", ".", "c", "o", "m">>,
       <<"p", "i", "n", "t", "e", "r", "e", "s", "t", ".", "c", "o", "m">>,
       <<"t", "u", "m", "b", "l", "r", ".", "c", "o", "m">> >>

ProductiveSites ==
    << <<"g", "i", "t", "h", "u", "b", ".", "c", "o", "m">>,
       <<"g", "i", "t", "l", "a", "b", ".", "c", "o", "m">>,
       <<"s", "t", "a", "c", "k", "o", "v", "e", "r", "f", "l", "o", "w", ".", "c", "o", "m">>,
       <<"s", "t", "a", "c", "k", "e", "x", "c", "h", "a", "n", "g", "e", ".", "c", "o", "m">>,
       <<"d", "o", "c", "s", ".">>,
       <<"d", "o", "c", "u", "m", "e", "n", "t", "a", "t", "i", "o", "n">>,
       <<"w", "i", "k", "i", "p", "e", "d", "i", "a", ".", "o", "r", "g">>,
       <<"c", "o", "u", "r", "s", "e", "r", "a", ".", "o", "r", "g">>,
       <<"u", "d", "e", "m", "y", ".", "c", "o", "m">>,
       <<"k", "h", "a", "n", "a", "c", "a", "d", "e", "m", "y", ".", "o", "r", "g">>,
       <<"l", "e", "e", "t", "c", "o", "d", "e", ".", "c", "o", "m">>,
       <<"h", "a", "c", "k", "e", "r", "r", "a", "n", "k", ".", "c", "o", "m">>,
       <<"c", "o", "d", "e", "c", "a", "d", "e", "m", "y", ".", "c", "o", "m">>,
       <<"f", "r", "e", "e", "c", "o", "d", "e", "c", "a", "m", "p", ".", "o", "r", "g">>,
       <<"m", "e", "d", "i", "u", "m", ".", "c", "o", "m">>,
       <<"d", "e", "v", ".", "t", "o">> >>

WorkSites ==
    << <<"g", "m", "a", "i", "l", ".", "c", "o", "m">>,
       <<"o", "u", "t", "l", "o", "o", "k", ".", "c", "o", "m">>,
       <<"m", "a", "i", "l", ".", "g", "o", "o", "g", "l", "e", ".", "c", "o", "m">>,
       <<"c", "a", "l", "e", "n", "d", "a", "r", ".", "g", "o", "o", "g", "l", "e", ".", "c", "o", "m">>,
       <<"d", "r", "i", "v", "e", ".", "g", "o", "o", "g", "l", "e", ".", "c", "o", "m">>,
       <<"n", "o", "t", "i", "o", "n", ".", "s", "o">>,
       <<"s", "l", "a", "c", "k", ".", "c", "o", "m">>,
       <<"t", "r", "e", "l", "l", "o", ".", "c", "o", "m">>,
       <<"a", "s", "a", "n", "a", ".", "c", "o", "m">>,
       <<"f", "i", "g", "m", "a", ".", "c", "o", "m">>,
       <<"c", "a", "n", "v", "a", ".", "c", "o", "m">> >>

\* sites.some((site) => lowerUrl.includes(site))
SomeIncluded(sites, lowerUrl) ==
    \E i \in DOMAIN sites : Includes(lowerUrl, sites[i])

Classified(category, subcategory) ==
    [category |-> category, subcategory |-> subcategory]

\* the lists tested in the order productive, work, distraction
CategorizeProductiveFirst(url) ==
    LET lowerUrl == LowerCase(url)
    IN  IF SomeIncluded(ProductiveSites, lowerUrl)
        THEN Classified("productive", "learning")
        ELSE IF SomeIncluded(WorkSites, lowerUrl)
        THEN Classified("productive", "work")
        ELSE IF SomeIncluded(DistractionSites, lowerUrl)
        THEN Classified("distraction", "entertainment")
        ELSE Classified("neutral", "general")

\* categorizeURL
CategorizeURL(url) ==
    LET lowerUrl == LowerCase(url)
    IN  IF SomeIncluded(DistractionSites, lowerUrl)
        THEN Classified("distraction", "entertainment")
        ELSE IF SomeIncluded(ProductiveSites, lowerUrl)
        THEN Classified("productive", "learning")
        ELSE IF SomeIncluded(WorkSites, lowerUrl)
        THEN Classified("productive", "work")
        ELSE Classified("neutral", "general")

\* the parts the classified URLs are put together from
UrlSchemes == { <<"h", "t", "t", "p", "s", ":", "/", "/">>, <<"H", "T", "T", "P", "S", ":", "/", "/", "W", "W", "W", ".">> }

UrlSubdomains ==
    { <<>>,
      <<"d", "o", "c", "s", ".">>,
      <<"M", "a", "i", "l", ".">>,
      <<"m", ".">> }

UrlHosts ==
    { <<"y", "o", "u", "t", "u", "b", "e", ".", "c", "o", "m">>,
      <<"G", "i", "t", "H", "u", "b", ".", "c", "o", "m">>,
      <<"g", "o", "o", "g", "l", "e", ".", "c", "o", "m">>,
      <<"n", "o", "t", "i", "o", "n", ".", "s", "o">>,
      <<"e", "x", "a", "m", "p", "l", "e", ".", "o", "r", "g">>,
      <<"X", ".", "C", "O", "M">>,
      <<>> }

UrlPaths ==
    { <<>>,
      <<"/", "d", "o", "c", "u", "m", "e", "n", "t", "a", "t", "i", "o", "n">>,
      <<"/", "w", "a", "t", "c", "h", "?", "u", "=", "s", "l", "a", "c", "k", ".", "c", "o", "m">>,
      <<"/">> }

UrlInputs ==
    { s \o d \o h \o p : s \in UrlSchemes, d \in UrlSubdomains,
                         h \in UrlHosts, p \in UrlPaths }

NotClassified == Classified("none", "none")

\* a call of categorizeURL
Categorize ==
    /\ classified = NotClassified
    /\ classified' = CategorizeURL(classifyUrl)
    /\ UNCHANGED classifyUrl

----------------------------------------------------------------------------
(* InterventionManager: the decision *)

MinInterventionInterval == 600000
CheckPeriod == 300000
NinetyMinutes == 5400000
RecentWindow == 20
TaskWindow == 5

ProductiveCategories == {"productivity", "development", "learning"}
DistractingCategories == {"social", "entertainment"}

InitialUserState ==
    [ focusLevel       |-> 50,
      distractionScore |-> 0,
      currentActivity  |-> "unknown",
      sessionDuration  |-> 0,
      breaksSinceFocus |-> 0,
      lastBreakTime    |-> 0 ]

CountIn(patterns, categories) ==
    Cardinality({i \in DOMAIN patterns : patterns[i].category \in categories})

\* determineCurrentActivity
DetermineCurrentActivity(patterns) ==
    IF Len(patterns) = 0 THEN "idle" ELSE patterns[Len(patterns)].category

\* the scores taken over the whole list that was passed
AnalyzeWholeHistory(state, patterns, sessionDuration) ==
    IF Len(patterns) = 0 THEN state
    ELSE [state EXCEPT
            !.focusLevel =
                MathRound(CountIn(patterns, ProductiveCategories) * 100, Len(patterns)),
            !.distractionScore =
                MathRound(CountIn(patterns, DistractingCategories) * 100, Len(patterns)),
            !.sessionDuration = sessionDuration,
            !.currentActivity = DetermineCurrentActivity(patterns)]

\* analyzeUserState; sessionDuration is getSessionStats().duration
AnalyzeUserState(state, patterns, sessionDuration) ==
    IF Len(patterns) = 0 THEN state
    ELSE LET recentPatterns == LastN(patterns, RecentWindow)
             n == Len(recentPatterns)
         IN  [state EXCEPT
                !.focusLevel =
                    MathRound(CountIn(recentPatterns, ProductiveCategories) * 100, n),
                !.distractionScore =
                    MathRound(CountIn(recentPatterns, DistractingCategories) * 100, n),
                !.sessionDuration = sessionDuration,
                !.currentActivity = DetermineCurrentActivity(recentPatterns)]

NoTask == [title |-> << >>, status |-> "none"]

\* isActivityRelevantToTask
IsActivityRelevantToTask(patterns, task) ==
    LET recentPatterns == LastN(patterns, TaskWindow)
        taskKeywords   == SplitSpace(LowerCase(task.title))
    IN  \E i \in DOMAIN recentPatterns : \E k \in DOMAIN taskKeywords :
            \/ Includes(LowerCase(recentPatterns[i].domain), taskKeywords[k])
            \/ recentPatterns[i].category = "productivity"
            \/ recentPatterns[i].category = "development"

\* what the text-generation oracle does when asked
\* (a text, an empty text, a text of white space, a failed request, or no
\* API key configured)
OracleResults == {"text", "empty", "blank", "throws", "unconfigured"}

\* getAISuggestions: the trimmed response, or the catch's string
GetAISuggestions(oracle) ==
    IF oracle \in {"throws", "unconfigured"}
    THEN "Try focusing on one task at a time."
    ELSE IF oracle \in {"empty", "blank"} THEN ""
    ELSE "suggestion of the oracle"

NoIntervention == [type |-> "null", priority |-> "null", message |-> "", action |-> "none"]

DistractionWarning ==
    [ type     |-> "distraction_warning",
      priority |-> "high",
      message  |-> "You've been browsing distracting content. Would you like to refocus?",
      action   |-> "show_overlay" ]

BreakSuggestion ==
    [ type     |-> "break_suggestion",
      priority |-> "medium",
      message  |-> "You've been working for 90 minutes. Consider taking a 5-minute break.",
      action   |-> "start_timer" ]

\* the suggestion used as the message as it is
FocusReminderNoFallback(suggestions) ==
    [ type     |-> "focus_reminder",
      priority |-> "medium",
      message  |-> suggestions,
      action   |-> "none" ]

FocusReminder(suggestions) ==
    [ type     |-> "focus_reminder",
      priority |-> "medium",
      message  |-> IF suggestions # "" THEN suggestions
                   ELSE "Consider reviewing your goals or tasks.",
      action   |-> "none" ]

GoalCheck ==
    [ type     |-> "goal_check",
      priority |-> "medium",
      message  |-> "Your current activity doesn't seem related to your task",
      action   |-> "none" ]

DetermineBreakFirst(state, patterns, activeTask, oracle) ==
    IF state.sessionDuration > NinetyMinutes /\ state.breaksSinceFocus = 0
    THEN BreakSuggestion
    ELSE IF state.distractionScore > 70
    THEN DistractionWarning
    ELSE IF state.focusLevel < 30
    THEN FocusReminder(GetAISuggestions(oracle))
    ELSE IF activeTask # NoTask /\ ~IsActivityRelevantToTask(patterns, activeTask)
    THEN GoalCheck
    ELSE NoIntervention

\* determineIntervention; activeTask is what db.getActiveTask() returns
DetermineIntervention(state, patterns, activeTask, oracle) ==
    IF state.distractionScore > 70
    THEN DistractionWarning
    ELSE IF state.sessionDuration > NinetyMinutes /\ state.breaksSinceFocus = 0
    THEN BreakSuggestion
    ELSE IF state.focusLevel < 30
    THEN FocusReminder(GetAISuggestions(oracle))
    ELSE IF activeTask # NoTask /\ ~IsActivityRelevantToTask(patterns, activeTask)
    THEN GoalCheck
    ELSE NoIntervention

(* Inputs of the decision *)

Pattern(domain, category) == [domain |-> domain, category |-> category]

\* four of five visits distracting: distractionScore 80
DistractedPatterns ==
    << Pattern(<<"a", "b">>, "social"), Pattern(<<"a", "b">>, "social"),
       Pattern(<<"a", "b">>, "entertainment"), Pattern(<<"a", "b">>, "social"),
       Pattern(<<"c", "d">>, "development") >>

\* one of four visits productive: focusLevel 25
LowFocusPatterns ==
    << Pattern(<<"a", "b">>, "other"), Pattern(<<"a", "b">>, "other"),
       Pattern(<<"a", "b">>, "other"), Pattern(<<"a", "b">>, "learning") >>

\* focusLevel 50, and no productivity or development visit
LearningPatterns ==
    << Pattern(<<"A", "b", ".", "c">>, "learning"), Pattern(<<"c">>, "other") >>

\* focusLevel 100
WorkPatterns == << Pattern(<<"c", "d">>, "development") >>

PatternInputs ==
    { << >>, DistractedPatterns, LowFocusPatterns, LearningPatterns, WorkPatterns }

TaskInputs ==
    { NoTask,
      [title |-> <<"a", "b">>, status |-> "active"],
      [title |-> <<"d", " ", "A", "B">>, status |-> "active"],
      [title |-> <<"d", "d">>, status |-> "active"] }

UserStateInputs ==
    [ focusLevel       : {0, 29, 30, 50},
      distractionScore : {0, 70, 71, 80},
      currentActivity  : {"unknown"},
      sessionDuration  : {0, NinetyMinutes, NinetyMinutes + 1, 6000000},
      breaksSinceFocus : {0, 1},
      lastBreakTime    : {0} ]

DecideInputs ==
    [ state : UserStateInputs, patterns : PatternInputs,
      activeTask : TaskInputs, oracle : OracleResults ]

Undecided == [type |-> "undecided", priority |-> "null", message |-> "", action |-> "none"]

\* a call of determineIntervention
Decide ==
    /\ decision = Undecided
    /\ decision' = DetermineIntervention(decideInput.state, decideInput.patterns,
                                         decideInput.activeTask, decideInput.oracle)
    /\ UNCHANGED decideInput

----------------------------------------------------------------------------
(* StatsDatabase.getCurrentStreak *)

\* the longest run of stored qualifying days in the model
MaxStreakDays == 367
\* short runs, walked in every time zone
MaxShortRun == 3

StreakLimit == 365
StreakThreshold == 70

\* A Date is its time value: a UTC instant, here in hours since day 0.
\* The local time of an instant is the instant plus the zone's offset, which
\* is timezone.before until the instant timezone.changeAt and timezone.after
\* from then on (a daylight-saving change, when the two differ).
TzOffset(t) == IF t >= timezone.changeAt THEN timezone.after ELSE timezone.before

\* formatDate: date.toISOString().split("T")[0], the UTC calendar day
FormatDate(date) == date \div 24

\* currentDate.setDate(currentDate.getDate() - 1): the same local time of
\* day on the previous local calendar day, as a time value
SetDatePrevious(date) ==
    LET newLocal == date + TzOffset(date) - 24
    IN  IF newLocal - timezone.after >= timezone.changeAt
        THEN newLocal - timezone.after
        ELSE newLocal - timezone.before

StreakIdle == [pc |-> "idle", streak |-> 0, currentDate |-> 0, inspected |-> 0]

\* "Limit to 365 days": if (streak > 365) break
StreakExit(streak) == streak > StreakLimit

\* getCurrentStreak is called: currentDate = new Date()
GetCurrentStreak ==
    /\ streakCall.pc = "idle"
    /\ streakCall' = [pc |-> "walk", streak |-> 0,
                      currentDate |-> today * 24 + utcHour, inspected |-> 0]
    /\ UNCHANGED <<utcHour, timezone>>

\* one turn of the loop: the day's stats are read and tested
StreakStep ==
    /\ streakCall.pc = "walk"
    /\ LET stats == GetDailyStats(FormatDate(streakCall.currentDate))
       IN  IF stats.productivityScore >= StreakThreshold
           THEN streakCall' =
                  [ pc          |-> IF StreakExit(streakCall.streak + 1)
                                    THEN "done" ELSE "walk",
                    streak      |-> streakCall.streak + 1,
                    currentDate |-> SetDatePrevious(streakCall.currentDate),
                    inspected   |-> streakCall.inspected + 1 ]
           ELSE streakCall' = [streakCall EXCEPT !.pc = "done",
                                                 !.inspected = @ + 1]
    /\ UNCHANGED <<utcHour, timezone>>

\* a stored day whose visits give it the productivity score `score`
DayRecord(date, score) ==
    VisitUpdate(VisitUpdate(NewDailyStats(date), "productive", score * 1000),
                "neutral", (100 - score) * 1000)

StreakToday == MaxStreakDays + 3

\* the last n days score `score`; the day before them has no record or a
\* low score; the two days before that one qualify
StreakStore(n, score, gap) ==
    LET first == StreakToday - n + 1
        days  == (first..StreakToday)
                 \cup (IF gap = "low" THEN {first - 1} ELSE {})
                 \cup {first - 3, first - 2}
    IN  [d \in days |-> IF d = first - 1 THEN DayRecord(d, 60)
                        ELSE DayRecord(d, score)]

\* today 80, yesterday 75, the day before 60
ExampleStore ==
    [d \in (StreakToday - 2)..StreakToday |->
        DayRecord(d, IF d = StreakToday THEN 80
                     ELSE IF d = StreakToday - 1 THEN 75 ELSE 60)]

\* the offset changed at 06:00 UTC yesterday (when before # after)
Zone(before, after) ==
    [before |-> before, after |-> after, changeAt |-> (StreakToday - 1) * 24 + 6]

Utc == Zone(0, 0)

\* UTC, New York without and with a change of offset, Tokyo
Timezones == {Utc, Zone(-5, -5), Zone(-4, -5), Zone(-5, -4), Zone(9, 9)}

InitStreakIdle ==
    /\ utcHour = 12
    /\ timezone = Utc
    /\ streakCall = StreakIdle

----------------------------------------------------------------------------
(* The two cooldown gates *)

\* calls of checkForIntervention made in one behaviour
MaxChecks == 2
\* periods of CheckPeriod the clock advances
MaxTicks == 2

FiveMinutes == 300000
ThirtyMinutes == 1800000
TenMinutes == 600000

\* an Intervention as determineIntervention builds it and the store holds
\* it: dismissed false, and neither triggered nor dismissedAt set
NewIntervention(priority) ==
    [ priority |-> priority, dismissed |-> FALSE, triggered |-> FALSE,
      dismissedAt |-> 0 ]

NewCheck(kind, durationMs) ==
    [ kind |-> kind, pc |-> IF kind = "sw" THEN "stats" ELSE "decide",
      durationMs |-> durationMs, startedAt |-> now,
      priority |-> "medium", sent |-> FALSE, owner |-> 0,
      intervention |-> 0, focusLevel |-> 0 ]

\* service worker, recordTabVisit: a distraction visit of durationMs was
\* recorded, and checkForIntervention(tab, durationMs) is called
CheckForIntervention(durationMs) ==
    /\ checksStarted < MaxChecks
    /\ checksStarted' = checksStarted + 1
    /\ checks' = Append(checks, NewCheck("sw", durationMs))
    /\ UNCHANGED <<now, storedLastInterventionTime, lastInterventionTime,
                   userState, sessionStart, delivered, managerStore>>

\* checkForIntervention: today's stats are read, then the two thresholds
SwReadStats(i) ==
    /\ checks[i].kind = "sw" /\ checks[i].pc = "stats"
    /\ checks' = IF \/ checks[i].durationMs < FiveMinutes
                    \/ GetDailyStats(today).distractionTimeMs < ThirtyMinutes
                 THEN RemoveAt(checks, i)
                 ELSE [checks EXCEPT ![i].pc = "cooldown"]
    /\ UNCHANGED <<now, storedLastInterventionTime, lastInterventionTime,
                   userState, sessionStart, delivered, checksStarted, managerStore>>

\* checkForIntervention: chrome.storage.local.get("lastInterventionTime")
\* and the ten-minute test
SwReadCooldown(i) ==
    /\ checks[i].kind = "sw" /\ checks[i].pc = "cooldown"
    /\ checks' = IF now - storedLastInterventionTime < TenMinutes
                 THEN RemoveAt(checks, i)
                 ELSE [checks EXCEPT ![i].pc = "show"]
    /\ UNCHANGED <<now, storedLastInterventionTime, lastInterventionTime,
                   userState, sessionStart, delivered, checksStarted, managerStore>>

\* showIntervention: chrome.tabs.sendMessage reaches the tab's overlay, or
\* throws (no receiver) and the error is caught
SwShowIntervention(i, received) ==
    /\ checks[i].kind = "sw" /\ checks[i].pc = "show"
    /\ delivered' = IF received THEN Append(delivered, now) ELSE delivered
    /\ checks' = [checks EXCEPT ![i].pc = "set", ![i].sent = received]
    /\ UNCHANGED <<now, storedLastInterventionTime, lastInterventionTime,
                   userState, sessionStart, checksStarted, managerStore>>

\* checkForIntervention: chrome.storage.local.set({lastInterventionTime})
SwSetLastTime(i) ==
    /\ checks[i].kind = "sw" /\ checks[i].pc = "set"
    /\ storedLastInterventionTime' = now
    /\ checks' = RemoveAt(checks, i)
    /\ UNCHANGED <<now, lastInterventionTime, userState, sessionStart,
                   delivered, checksStarted, managerStore>>

\* checkAndIntervene: getPatternsSince, analyzeUserState and
\* determineIntervention
MgrDecide(i, patterns, activeTask, oracle) ==
    /\ checks[i].kind = "mgr" /\ checks[i].pc = "decide"
    /\ LET state == AnalyzeUserState(userState, patterns, now - sessionStart)
           intervention == DetermineIntervention(state, patterns, activeTask, oracle)
       IN  /\ userState' = state
           /\ checks' = IF intervention = NoIntervention
                        THEN [checks EXCEPT ![i].pc = "stats",
                                            ![i].focusLevel = state.focusLevel]
                        ELSE [checks EXCEPT ![i].pc = "queue",
                                            ![i].priority = intervention.priority,
                                            ![i].focusLevel = state.focusLevel]
    /\ UNCHANGED <<now, storedLastInterventionTime, lastInterventionTime,
                   sessionStart, delivered, checksStarted, managerStore>>

\* queueIntervention: the intervention is queued and saved; only a high or
\* critical one is triggered
MgrQueue(i) ==
    /\ checks[i].kind = "mgr" /\ checks[i].pc = "queue"
    /\ LET id == Len(interventions) + 1
       IN  /\ interventionQueue' = Append(interventionQueue, id)
           /\ interventions' = Append(interventions,
                  NewIntervention(checks[i].priority))
           /\ checks' = [checks EXCEPT
                  ![i].intervention = id,
                  ![i].pc = IF checks[i].priority \in {"high", "critical"}
                            THEN "trigger" ELSE "stamp"]
    /\ UNCHANGED <<now, storedLastInterventionTime, lastInterventionTime,
                   userState, sessionStart, delivered, checksStarted, shown,
                   engineDailyStats>>

\* triggerIntervention: the message is sent to the active tab, if there is
\* one, and reaches its overlay or not; then updateIntervention(id,
\* {...intervention, triggered: true}) assigns the fields of the
\* intervention as it was created, and triggered
MgrTrigger(i, received) ==
    /\ checks[i].kind = "mgr" /\ checks[i].pc = "trigger"
    /\ delivered' = IF received THEN Append(delivered, now) ELSE delivered
    /\ shown' = IF received THEN shown \cup {checks[i].intervention} ELSE shown
    /\ interventions' = [interventions EXCEPT
           ![checks[i].intervention].triggered = TRUE,
           ![checks[i].intervention].dismissed = FALSE]
    /\ checks' = [checks EXCEPT ![i].pc = "stamp", ![i].sent = received]
    /\ UNCHANGED <<now, storedLastInterventionTime, lastInterventionTime,
                   userState, sessionStart, checksStarted, interventionQueue,
                   engineDailyStats>>

\* checkAndIntervene: this.lastInterventionTime = now (the time read when
\* the check started)
MgrStamp(i) ==
    /\ checks[i].kind = "mgr" /\ checks[i].pc = "stamp"
    /\ lastInterventionTime' = checks[i].startedAt
    /\ checks' = [checks EXCEPT ![i].pc = "stats"]
    /\ UNCHANGED <<now, storedLastInterventionTime, userState, sessionStart,
                   delivered, checksStarted, managerStore>>

\* getTodayStats() || the default record
GetTodayStats ==
    IF today \in DOMAIN engineDailyStats THEN engineDailyStats[today]
    ELSE [ focusTime |-> 0, distractionTime |-> 0, breaksTaken |-> 0,
           tasksCompleted |-> 0, productivityScore |-> 0 ]

\* checkAndIntervene -> updateDailyStats(state): today's record of the
\* manager's database is stored with productivityScore = state.focusLevel
MgrUpdateDailyStats(i) ==
    /\ checks[i].kind = "mgr" /\ checks[i].pc = "stats"
    /\ engineDailyStats' =
          [d \in DOMAIN engineDailyStats \cup {today} |->
              IF d = today
              THEN [GetTodayStats EXCEPT !.productivityScore = checks[i].focusLevel]
              ELSE engineDailyStats[d]]
    /\ checks' = RemoveAt(checks, i)
    /\ UNCHANGED <<now, storedLastInterventionTime, lastInterventionTime,
                   userState, sessionStart, delivered, checksStarted,
                   interventions, interventionQueue, shown>>

\* dismissIntervention(interventionId): the stored intervention, if found,
\* is updated with dismissed: true and dismissedAt: Date.now(), and leaves
\* the queue (the call's two transactions are taken as one step)
DismissIntervention(id) ==
    /\ id \in DOMAIN interventions
    /\ interventions' = [interventions EXCEPT ![id].dismissed = TRUE,
                                               ![id].dismissedAt = now]
    /\ interventionQueue' = SelectSeq(interventionQueue, LAMBDA q : q # id)
    /\ UNCHANGED <<now, storedLastInterventionTime, lastInterventionTime,
                   userState, sessionStart, checks, delivered, checksStarted,
                   shown, engineDailyStats>>

\* a period passes and the setInterval timer calls checkAndIntervene, which
\* returns at once unless the interval since lastInterventionTime has passed
CheckAndIntervene ==
    /\ now < MinInterventionInterval + MaxTicks * CheckPeriod
    /\ now' = now + CheckPeriod
    /\ checks' = IF now' - lastInterventionTime < MinInterventionInterval
                 THEN checks
                 ELSE Append(checks, [NewCheck("mgr", 0) EXCEPT !.startedAt = now'])
    /\ UNCHANGED <<storedLastInterventionTime, lastInterventionTime, userState,
                   sessionStart, delivered, checksStarted, managerStore>>

----------------------------------------------------------------------------
(* service worker: the tab timer and its four handlers *)

\* the clock instants of a tracked session
MaxTrackerTicks == 4
\* handlers suspended at an await at the same time
MaxHandlers == 1

MinVisitMs == 5000
AlarmMinVisitMs == 60000

\* ms elapsed after k ticks: two short steps, then long ones
Elapsed(k) == IF k <= 2 THEN 2500 * k ELSE 5000 + 31000 * (k - 2)

YoutubeUrl ==
    <<"h", "t", "t", "p", "s", ":", "/", "/", "w", "w", "w", ".", "y", "o", "u", "t", "u", "b", "e", ".", "c", "o", "m", "/", "w", "a", "t", "c", "h">>
GithubUrl ==
    <<"h", "t", "t", "p", "s", ":", "/", "/", "g", "i", "t", "h", "u", "b", ".", "c", "o", "m", "/">>
NewTabUrl ==
    <<"c", "h", "r", "o", "m", "e", ":", "/", "/", "n", "e", "w", "t", "a", "b", "/">>
ChromeScheme ==
    <<"c", "h", "r", "o", "m", "e", ":", "/", "/">>
ExtensionScheme ==
    <<"c", "h", "r", "o", "m", "e", "-", "e", "x", "t", "e", "n", "s", "i", "o", "n", ":", "/", "/">>

\* String.prototype.startsWith
StartsWith(s, prefix) ==
    Len(s) >= Len(prefix) /\ SubSeq(s, 1, Len(prefix)) = prefix

\* let currentTab: chrome.tabs.Tab | null = null
NoTab == [id |-> 0, url |-> << >>]

\* the tabs the browser reports
Tabs ==
    { [id |-> 1, url |-> YoutubeUrl], [id |-> 2, url |-> GithubUrl],
      [id |-> 2, url |-> NewTabUrl] }

\* every dwell is kept
LongEnoughAlways(duration) == duration > 0

\* duration > 5000: "Only record if > 5 seconds"
LongEnough(duration) == duration > MinVisitMs

\* currentTab?.url && !currentTab.url.startsWith("chrome://")
HasPageUrl(tab) ==
    tab # NoTab /\ tab.url # << >> /\ ~StartsWith(tab.url, ChromeScheme)

\* recordTabVisit returns at once for these
IsBrowserUrl(url) ==
    url = << >> \/ StartsWith(url, ChromeScheme) \/ StartsWith(url, ExtensionScheme)

\* an id no suspended handler has
FreeId == CHOOSE id \in 1..MaxHandlers : \A i \in DOMAIN handlers : handlers[i].id # id

NoRecord == UNCHANGED <<aggVars, checks, checksStarted, recorded>>

\* recordTabVisit(tab, durationMs): the visit is categorized and recorded;
\* a distraction visit starts checkForIntervention, which owner awaits
RecordTabVisit(tab, durationMs, owner) ==
    IF IsBrowserUrl(tab.url) THEN NoRecord
    ELSE LET category == CategorizeURL(tab.url).category
         IN  /\ RecordSiteVisit(category, durationMs)
             /\ recorded' = Append(recorded,
                    [tab |-> tab.id, startTime |-> now - durationMs, endTime |-> now])
             /\ IF category = "distraction"
                THEN /\ checksStarted < MaxChecks
                     /\ checksStarted' = checksStarted + 1
                     /\ checks' = Append(checks,
                            [NewCheck("sw", durationMs) EXCEPT !.owner = owner])
                ELSE UNCHANGED <<checks, checksStarted>>

Suspend(kind, tab) ==
    /\ Len(handlers) < MaxHandlers
    /\ handlers' = Append(handlers, [id |-> FreeId, kind |-> kind, tab |-> tab])

\* the awaits of handler i have resolved
Resumes(i, kind) ==
    /\ handlers[i].kind = kind
    /\ \A c \in DOMAIN checks : checks[c].owner # handlers[i].id

restOfEngine == <<now, storedLastInterventionTime, lastInterventionTime,
                  userState, sessionStart, delivered, managerStore>>

\* chrome.tabs.onActivated: the previous tab's dwell is recorded, then the
\* handler awaits chrome.tabs.get
OnActivated(tab) ==
    /\ Len(handlers) < MaxHandlers
    /\ LET duration == now - tabStartTime
           page == HasPageUrl(currentTab)
                   /\ ~StartsWith(currentTab.url, ExtensionScheme)
       IN  /\ IF page /\ LongEnough(duration)
              THEN RecordTabVisit(currentTab, duration, FreeId)
              ELSE NoRecord
           /\ shortClosed' = (shortClosed \/ (page /\ ~LongEnough(duration)))
    /\ Suspend("activated", tab)
    /\ UNCHANGED <<currentTab, tabStartTime, restOfEngine>>

\* onActivated after its awaits: currentTab = the tab; tabStartTime = Date.now()
FinishActivated(i) ==
    /\ Resumes(i, "activated")
    /\ currentTab' = handlers[i].tab
    /\ tabStartTime' = now
    /\ handlers' = RemoveAt(handlers, i)
    /\ UNCHANGED <<aggVars, engineVars, recorded, shortClosed>>

\* chrome.tabs.onUpdated with status "complete" and a url
OnUpdated(tab) ==
    LET duration == now - tabStartTime
        changed  == currentTab # NoTab /\ currentTab.id = tab.id
                    /\ currentTab.url # tab.url
    IN  /\ IF changed /\ LongEnough(duration) /\ HasPageUrl(currentTab)
           THEN /\ Suspend("updated", tab)
                /\ RecordTabVisit(currentTab, duration, FreeId)
                /\ UNCHANGED <<currentTab, tabStartTime>>
           ELSE /\ NoRecord
                /\ currentTab' = tab
                /\ tabStartTime' = IF changed THEN now ELSE tabStartTime
                /\ UNCHANGED handlers
        /\ shortClosed' = (shortClosed \/ (changed /\ HasPageUrl(currentTab)
                                           /\ ~LongEnough(duration)))
        /\ UNCHANGED restOfEngine

\* onUpdated after the await: tabStartTime = Date.now(); currentTab = tab
FinishUpdated(i) ==
    /\ Resumes(i, "updated")
    /\ currentTab' = handlers[i].tab
    /\ tabStartTime' = now
    /\ handlers' = RemoveAt(handlers, i)
    /\ UNCHANGED <<aggVars, engineVars, recorded, shortClosed>>

\* chrome.windows.onFocusChanged(WINDOW_ID_NONE): the browser lost focus
OnFocusLost ==
    /\ HasPageUrl(currentTab)
    /\ LET duration == now - tabStartTime
       IN  /\ IF LongEnough(duration)
              THEN RecordTabVisit(currentTab, duration, 0)
              ELSE NoRecord
           /\ shortClosed' = (shortClosed \/ ~LongEnough(duration))
    /\ UNCHANGED <<currentTab, tabStartTime, handlers, restOfEngine>>

\* onFocusChanged(a window): the browser gained focus
OnFocusGained ==
    /\ tabStartTime' = now
    /\ UNCHANGED <<aggVars, engineVars, currentTab, handlers, recorded, shortClosed>>

\* chrome.alarms.onAlarm "updateStats": after a minute on the page the
\* dwell so far is recorded
OnAlarm ==
    /\ HasPageUrl(currentTab)
    /\ now - tabStartTime > AlarmMinVisitMs
    /\ Suspend("alarm", currentTab)
    /\ RecordTabVisit(currentTab, now - tabStartTime, FreeId)
    /\ UNCHANGED <<currentTab, tabStartTime, shortClosed, restOfEngine>>

\* onAlarm after the await: tabStartTime = Date.now()
FinishAlarm(i) ==
    /\ Resumes(i, "alarm")
    /\ tabStartTime' = now
    /\ handlers' = RemoveAt(handlers, i)
    /\ UNCHANGED <<aggVars, engineVars, currentTab, recorded, shortClosed>>

\* time passes
Tick ==
    /\ \E k \in 0..(MaxTrackerTicks - 1) :
          /\ now = MinInterventionInterval + Elapsed(k)
          /\ now' = MinInterventionInterval + Elapsed(k + 1)
    /\ UNCHANGED <<aggVars, storedLastInterventionTime, lastInterventionTime,
                   userState, sessionStart, checks, delivered, checksStarted,
                   managerStore, trackerVars>>

InitClassifyIdle ==
    /\ classifyUrl = << >>
    /\ classified = Classified("neutral", "general")

\* the service worker was just loaded
InitTrackerIdle ==
    /\ currentTab = NoTab
    /\ tabStartTime = MinInterventionInterval
    /\ handlers = << >>
    /\ recorded = << >>
    /\ shortClosed = FALSE

NoCall == [fn |-> "none"]

\* IntentEngine.currentIntent before the first analysis: null
NoIntent == [type |-> "null"]

\* BehaviorMonitor.activeTab before the first tab change: null
NoActiveTab == 0

\* a freshly constructed IntentEngine
InitIntentIdle ==
    /\ currentIntent = NoIntent
    /\ lastAnalysis = 0

\* a freshly constructed BehaviorMonitor
InitMonitorIdle ==
    /\ activeTab = NoActiveTab
    /\ monitorTabStartTime = 0
    /\ sessionPatterns = << >>

\* no failure so far, no overlay shown, no call made
InitLateIdle ==
    /\ InitIntentIdle
    /\ InitMonitorIdle
    /\ escaped = {}
    /\ caughtErrors = {}
    /\ overlayIntervention = 0
    /\ timers = << >>
    /\ responses = << >>
    /\ callArgs = NoCall
    /\ callResult = NoCall

InitAuxIdle == InitClassifyIdle /\ InitTrackerIdle /\ InitLateIdle

InitManagerStore ==
    /\ interventions = << >>
    /\ interventionQueue = << >>
    /\ shown = {}
    /\ engineDailyStats = << >>

\* the clock starts at least one interval after the epoch; nothing stored
InitEngine ==
    /\ now = MinInterventionInterval
    /\ storedLastInterventionTime = 0
    /\ lastInterventionTime = 0
    /\ userState = InitialUserState
    /\ sessionStart = MinInterventionInterval
    /\ checks = << >>
    /\ delivered = << >>
    /\ checksStarted = 0
    /\ InitManagerStore

InitDecideIdle ==
    /\ decideInput = [state |-> InitialUserState, patterns |-> << >>,
                      activeTask |-> NoTask, oracle |-> "throws"]
    /\ decision = NoIntervention

Init == InitAgg /\ InitEngine /\ InitDecideIdle /\ InitStreakIdle /\ InitAuxIdle

Next ==
    /\ UNCHANGED <<engineVars, decideVars, streakVars, auxVars>>
    /\ NextAgg

\* asynchronous handlers interleave freely
Spec == Init /\ [][Next]_vars

\* a day on which thirty minutes of distraction were recorded
DistractedDay ==
    [d \in {1} |-> VisitUpdate(NewDailyStats(1), "distraction", ThirtyMinutes)]

\* the sessions: started now, or a hundred minutes ago
SessionStarts == {MinInterventionInterval, MinInterventionInterval - 6000000}

InitCooldown ==
    /\ today = 1
    /\ dailyStats \in {<< >>, DistractedDay}
    /\ siteVisits = << >>
    /\ interventionEvents = << >>
    /\ pending = << >>
    /\ now = MinInterventionInterval
    /\ storedLastInterventionTime = 0
    /\ lastInterventionTime = 0
    /\ userState = InitialUserState
    /\ sessionStart \in SessionStarts
    /\ checks = << >>
    /\ delivered = << >>
    /\ checksStarted = 0
    /\ InitManagerStore
    /\ InitDecideIdle
    /\ InitStreakIdle
    /\ InitAuxIdle

NextCooldown ==
    /\ UNCHANGED <<aggVars, decideVars, streakVars, auxVars>>
    /\ \/ \E d \in {FiveMinutes - 1, FiveMinutes} : CheckForIntervention(d)
       \/ \E i \in DOMAIN checks : SwReadStats(i)
       \/ \E i \in DOMAIN checks : SwReadCooldown(i)
       \/ \E i \in DOMAIN checks, received \in BOOLEAN : SwShowIntervention(i, received)
       \/ \E i \in DOMAIN checks : SwSetLastTime(i)
       \/ \E i \in DOMAIN checks, p \in {<< >>, DistractedPatterns, LowFocusPatterns} :
             MgrDecide(i, p, NoTask, "throws")
       \/ \E i \in DOMAIN checks : MgrQueue(i)
       \/ \E i \in DOMAIN checks, received \in BOOLEAN : MgrTrigger(i, received)
       \/ \E i \in DOMAIN checks : MgrStamp(i)
       \/ \E i \in DOMAIN checks : MgrUpdateDailyStats(i)
       \/ CheckAndIntervene

\* the visit recorder's checks and the manager's periodic checks interleave
SpecCooldown == InitCooldown /\ [][NextCooldown]_vars

InitDecide ==
    /\ InitAgg
    /\ InitEngine
    /\ decideInput \in DecideInputs
    /\ decision = Undecided
    /\ InitStreakIdle
    /\ InitAuxIdle

NextDecide ==
    /\ UNCHANGED <<aggVars, engineVars, streakVars, auxVars>>
    /\ Decide

\* determineIntervention applied to each input
SpecDecide == InitDecide /\ [][NextDecide]_vars

\* recordings run one at a time: a recording starts only when the previous
\* recording's aggregation has completed
NextSeq ==
    /\ UNCHANGED <<engineVars, decideVars, streakVars, auxVars>>
    /\ \/ pending = << >> /\ \E c \in Categories, d \in Durations : RecordSiteVisit(c, d)
       \/ pending = << >> /\ \E o \in Outcomes : RecordIntervention(o)
       \/ \E i \in DOMAIN pending : ReadDailyStats(i)
       \/ \E i \in DOMAIN pending : PutDailyStats(i)
       \/ Midnight

SpecSeq == Init /\ [][NextSeq]_vars

----------------------------------------------------------------------------
(* The tab timer with the aggregator; categorizeURL on its own *)

InitTracker ==
    /\ InitAgg
    /\ InitEngine
    /\ InitDecideIdle
    /\ InitStreakIdle
    /\ InitClassifyIdle
    /\ InitTrackerIdle
    /\ InitLateIdle

\* no dwell reaches five minutes, so that checkForIntervention returns at
\* its first test
NextTracker ==
    /\ UNCHANGED <<decideVars, streakVars, classifyVars, lateVars>>
    /\ \/ \E tab \in Tabs : OnActivated(tab)
       \/ \E i \in DOMAIN handlers : FinishActivated(i)
       \/ \E tab \in Tabs : OnUpdated(tab)
       \/ \E i \in DOMAIN handlers : FinishUpdated(i)
       \/ OnFocusLost
       \/ OnFocusGained
       \/ OnAlarm
       \/ \E i \in DOMAIN handlers : FinishAlarm(i)
       \/ Tick
       \/ \E i \in DOMAIN checks : SwReadStats(i) /\ UNCHANGED <<aggVars, trackerVars>>
       \/ \E i \in DOMAIN pending :
             ReadDailyStats(i) /\ UNCHANGED <<engineVars, trackerVars>>
       \/ \E i \in DOMAIN pending :
             PutDailyStats(i) /\ UNCHANGED <<engineVars, trackerVars>>

\* the browser's events arrive in any order while handlers are suspended
SpecTracker == InitTracker /\ [][NextTracker]_vars

InitClassify ==
    /\ InitAgg
    /\ InitEngine
    /\ InitDecideIdle
    /\ InitStreakIdle
    /\ InitTrackerIdle
    /\ InitLateIdle
    /\ classifyUrl \in UrlInputs
    /\ classified = NotClassified

NextClassify ==
    /\ UNCHANGED <<aggVars, engineVars, decideVars, streakVars, trackerVars,
                   lateVars>>
    /\ Categorize

\* categorizeURL applied to each input
SpecClassify == InitClassify /\ [][NextClassify]_vars

----------------------------------------------------------------------------
(* The InterventionManager's interventions and the outcome messages *)

\* service worker, onMessage INTERVENTION_RESPONSE: the overlay that showed
\* an intervention reports an outcome, which recordIntervention records
InterventionResponse(outcome) ==
    /\ shown # {}
    /\ RecordIntervention(outcome)
    /\ UNCHANGED engineVars

NextLifecycle ==
    /\ UNCHANGED <<decideVars, streakVars, auxVars>>
    /\ \/ CheckAndIntervene /\ UNCHANGED aggVars
       \/ \E i \in DOMAIN checks, p \in {<< >>, DistractedPatterns, LowFocusPatterns} :
             MgrDecide(i, p, NoTask, "throws") /\ UNCHANGED aggVars
       \/ \E i \in DOMAIN checks : MgrQueue(i) /\ UNCHANGED aggVars
       \/ \E i \in DOMAIN checks, received \in BOOLEAN :
             MgrTrigger(i, received) /\ UNCHANGED aggVars
       \/ \E i \in DOMAIN checks : MgrStamp(i) /\ UNCHANGED aggVars
       \/ \E i \in DOMAIN checks : MgrUpdateDailyStats(i) /\ UNCHANGED aggVars
       \/ \E id \in DOMAIN interventions : DismissIntervention(id) /\ UNCHANGED aggVars
       \/ \E o \in Outcomes : InterventionResponse(o)
       \/ \E i \in DOMAIN pending : ReadDailyStats(i) /\ UNCHANGED engineVars
       \/ \E i \in DOMAIN pending : PutDailyStats(i) /\ UNCHANGED engineVars

\* the periodic checks, dismissals and outcome messages in any order
SpecLifecycle == Init /\ [][NextLifecycle]_vars

----------------------------------------------------------------------------
(* analyzeUserState, called alone and from the periodic check *)

OneHour == 3600000

\* n visits of one category
Visits(category, n) == [i \in 1..n |-> Pattern(<<"a">>, category)]

VisitCategories == {"social", "development", "learning", "other"}

\* histories shorter and longer than the window, of one or two categories
HistoryInputs ==
    { Visits(c1, n1) \o Visits(c2, n2) :
        c1 \in VisitCategories, c2 \in VisitCategories,
        n1 \in {0, 1, 2, 21}, n2 \in {0, 1, 7, 19, 20} }

PreviousStates ==
    { InitialUserState,
      [ focusLevel       |-> 80,
        distractionScore |-> 10,
        currentActivity  |-> "social",
        sessionDuration  |-> 5000,
        breaksSinceFocus |-> 2,
        lastBreakTime    |-> 7000 ] }

\* a record of the patterns store: the key is id, a random UUID
StoredPattern(id, timestamp, category) ==
    [ id |-> id, timestamp |-> timestamp, domain |-> <<"a">>, category |-> category ]

\* three visits: one older than an hour at the time of the check, two newer
StoredPatterns ==
    { [id |-> id, timestamp |-> 500000 + 1000000 * k, domain |-> <<"a">>,
       category |-> IF k = 0 THEN "social" ELSE IF k = 1 THEN "development" ELSE "other"] :
        id \in 1..3, k \in 0..2 }

\* the store lists its records by key; a key is unrelated to the time at
\* which its record was added
PatternStores ==
    { s \in UNION {[1..n -> StoredPatterns] : n \in 0..3} :
        /\ \A i \in DOMAIN s : \A j \in DOMAIN s : i < j => s[i].id < s[j].id
        /\ \A i \in DOMAIN s : \A j \in DOMAIN s :
              i # j => s[i].timestamp # s[j].timestamp }

\* getPatternsSince: store.getAll(), then the filter
GetPatternsSince(store, timestamp) ==
    SelectSeq(store, LAMBDA p : p.timestamp > timestamp)

\* the time of the periodic check the inputs are drawn for
CheckTime == 4200000

InitAnalyze ==
    /\ InitAgg
    /\ InitEngine
    /\ InitDecideIdle
    /\ InitStreakIdle
    /\ InitClassifyIdle
    /\ InitTrackerIdle
    /\ InitIntentIdle
    /\ InitMonitorIdle
    /\ escaped = {}
    /\ caughtErrors = {}
    /\ overlayIntervention = 0
    /\ timers = << >>
    /\ responses = << >>
    /\ callResult = NoCall
    /\ \/ callArgs \in [ fn : {"analyzeUserState"}, state : PreviousStates,
                         patterns : HistoryInputs, sessionDuration : {0, 6000000} ]
       \/ callArgs \in [ fn : {"checkAndIntervene"}, state : {InitialUserState},
                         store : PatternStores, now : {CheckTime},
                         sessionDuration : {0} ]

\* a call of analyzeUserState(patterns)
Analyze ==
    /\ callArgs.fn = "analyzeUserState"
    /\ callResult = NoCall
    /\ callResult' = [ fn |-> "analyzeUserState",
                       state |-> AnalyzeUserState(callArgs.state, callArgs.patterns,
                                                  callArgs.sessionDuration) ]
    /\ UNCHANGED callArgs

\* checkAndIntervene: patterns = await db.getPatternsSince(now - 60*60*1000);
\* state = await this.analyzeUserState(patterns)
CheckPatterns ==
    /\ callArgs.fn = "checkAndIntervene"
    /\ callResult = NoCall
    /\ LET patterns == GetPatternsSince(callArgs.store, callArgs.now - OneHour)
       IN  callResult' = [ fn |-> "checkAndIntervene",
                           state |-> AnalyzeUserState(callArgs.state, patterns,
                                                      callArgs.sessionDuration) ]
    /\ UNCHANGED callArgs

NextAnalyze ==
    /\ UNCHANGED <<aggVars, engineVars, decideVars, streakVars, classifyVars,
                   trackerVars, failureVars, intentVars, monitorVars, overlayVars>>
    /\ \/ Analyze
       \/ CheckPatterns

SpecAnalyze == InitAnalyze /\ [][NextAnalyze]_vars

----------------------------------------------------------------------------
(* calculateWeeklyStats *)

\* the first day of the requested week
WeekStart == 10

\* addDays: new Date(dateStr) is 00:00 UTC of the day; setDate moves the
\* local calendar day and keeps the local time of day; formatDate names the
\* UTC day of the result
AddDays(dateStr, days) ==
    LET date     == dateStr * 24
        newLocal == date + TzOffset(date) + 24 * days
        moved    == IF newLocal - timezone.after >= timezone.changeAt
                    THEN newLocal - timezone.after
                    ELSE newLocal - timezone.before
    IN  FormatDate(moved)

\* bestDay: { date: "", score: 0 }, worstDay: { date: "", score: 100 }
NoDate == 0
InitialWeeklyStats(weekStart, weekEnd) ==
    [ fn                     |-> "calculateWeeklyStats",
      weekStart              |-> weekStart,
      weekEnd                |-> weekEnd,
      totalFocusTimeMs       |-> 0,
      totalDistractionTimeMs |-> 0,
      totalNeutralTimeMs     |-> 0,
      scoreSum               |-> 0,
      days                   |-> 0,
      totalAccepted          |-> 0,
      bestDay                |-> [date |-> NoDate, score |-> 0],
      worstDay               |-> [date |-> NoDate, score |-> 100],
      totalInterventions     |-> 0 ]

\* one turn of dailyStats.forEach, with the two reduce sums
AddDay(weeklyStats, day) ==
    [ weeklyStats EXCEPT
        !.totalFocusTimeMs = @ + day.focusTimeMs,
        !.totalDistractionTimeMs = @ + day.distractionTimeMs,
        !.totalNeutralTimeMs = @ + day.neutralTimeMs,
        !.totalInterventions = @ + day.interventionsTriggered,
        !.scoreSum = @ + day.productivityScore,
        !.days = @ + 1,
        !.totalAccepted = @ + day.interventionsAccepted,
        !.bestDay = IF day.productivityScore > @.score
                    THEN [date |-> day.date, score |-> day.productivityScore]
                    ELSE @,
        !.worstDay = IF day.productivityScore < @.score
                     THEN [date |-> day.date, score |-> day.productivityScore]
                     ELSE @ ]

RECURSIVE WeeklyFold(_, _, _)
\* the first n records folded into weeklyStats
WeeklyFold(weeklyStats, records, n) ==
    IF n = 0 THEN weeklyStats
    ELSE AddDay(WeeklyFold(weeklyStats, records, n - 1), records[n])

\* the days that can hold a record: the week, the day before and the day after
WeekDays == (WeekStart - 1)..(WeekStart + 7)

DayKinds == {"zero", "full", "mid", "helped"}

\* a day's record as the aggregator leaves it: a minute of neutral time
\* (score 0), a minute of focus (100), a mixed day (60), or a mixed day on
\* which one of two interventions was accepted (45)
KindRecord(date, kind) ==
    IF kind = "zero" THEN VisitUpdate(NewDailyStats(date), "neutral", 60000)
    ELSE IF kind = "full" THEN VisitUpdate(NewDailyStats(date), "productive", 60000)
    ELSE IF kind = "mid" THEN DayRecord(date, 60)
    ELSE InterventionUpdate(InterventionUpdate(DayRecord(date, 40), "accepted"),
                            "dismissed")

KindOfDay(date) ==
    IF date % 4 = 0 THEN "mid" ELSE IF date % 4 = 1 THEN "helped"
    ELSE IF date % 4 = 2 THEN "full" ELSE "zero"

\* records on the days given, all of one kind or of a kind that varies
WeekStore(days, layout) ==
    [d \in days |-> KindRecord(d, IF layout = "mixed" THEN KindOfDay(d) ELSE layout)]

WeekStores ==
    { WeekStore(days, layout) :
        days \in { {}, WeekDays, {WeekStart}, {WeekStart + 6},
                   {WeekStart + 2, WeekStart + 4}, {WeekStart - 1, WeekStart + 7},
                   WeekStart..(WeekStart + 6) },
        layout \in DayKinds \cup {"mixed"} }

\* the offset changes at 01:00 UTC of the week's fourth day (when before # after)
WeekZone(before, after) ==
    [before |-> before, after |-> after, changeAt |-> (WeekStart + 3) * 24 + 1]

\* UTC, Tokyo, Berlin in spring and in autumn, Los Angeles in spring
WeekZones ==
    {WeekZone(0, 0), WeekZone(9, 9), WeekZone(1, 2), WeekZone(2, 1), WeekZone(-8, -7)}

InitWeekly ==
    /\ today = WeekStart + 7
    /\ dailyStats \in WeekStores
    /\ siteVisits = << >>
    /\ interventionEvents = << >>
    /\ pending = << >>
    /\ InitEngine
    /\ InitDecideIdle
    /\ utcHour = 12
    /\ timezone \in WeekZones
    /\ streakCall = StreakIdle
    /\ InitClassifyIdle
    /\ InitTrackerIdle
    /\ InitIntentIdle
    /\ InitMonitorIdle
    /\ escaped = {}
    /\ caughtErrors = {}
    /\ overlayIntervention = 0
    /\ timers = << >>
    /\ responses = << >>
    /\ callArgs = [fn |-> "calculateWeeklyStats", weekStart |-> WeekStart]
    /\ callResult = NoCall

\* calculateWeeklyStats(weekStart); the average and the rate are kept as
\* the dividend and divisor of the code's division
CalculateWeeklyStats ==
    /\ callArgs.fn = "calculateWeeklyStats"
    /\ callResult = NoCall
    /\ LET weekEnd == AddDays(callArgs.weekStart, 6)
           records == GetStatsForRange(callArgs.weekStart, weekEnd)
           folded  == WeeklyFold(InitialWeeklyStats(callArgs.weekStart, weekEnd),
                                 records, Len(records))
       IN  callResult' =
              [ fn                     |-> "calculateWeeklyStats",
                weekStart              |-> folded.weekStart,
                weekEnd                |-> folded.weekEnd,
                totalFocusTimeMs       |-> folded.totalFocusTimeMs,
                totalDistractionTimeMs |-> folded.totalDistractionTimeMs,
                totalNeutralTimeMs     |-> folded.totalNeutralTimeMs,
                averageProductivityScore |->
                    [num |-> folded.scoreSum, den |-> folded.days],
                bestDay                |-> folded.bestDay,
                worstDay               |-> folded.worstDay,
                totalInterventions     |-> folded.totalInterventions,
                interventionAcceptanceRate |->
                    IF folded.totalInterventions > 0
                    THEN [num |-> folded.totalAccepted,
                          den |-> folded.totalInterventions]
                    ELSE [num |-> 0, den |-> 1] ]
    /\ UNCHANGED callArgs

NextWeekly ==
    /\ UNCHANGED <<aggVars, engineVars, decideVars, streakVars, classifyVars,
                   trackerVars, failureVars, intentVars, monitorVars, overlayVars>>
    /\ CalculateWeeklyStats

SpecWeekly == InitWeekly /\ [][NextWeekly]_vars

----------------------------------------------------------------------------
(* getTopDistractions *)

\* visits held by the siteVisits store of one query
MaxStoredVisits == 3

\* the pages visited; categorizeURL gives the first three "distraction"
VisitedUrls == {"youtube", "reddit", "twitter", "github"}

UrlCategory(url) == IF url = "github" THEN "productive" ELSE "distraction"

StoredVisits ==
    { [date |-> d, url |-> u, category |-> UrlCategory(u), durationMs |-> ms] :
        d \in 1..2, u \in VisitedUrls, ms \in Durations }

\* index.getAll(date) and the filter: the date's distraction visits in key
\* (insertion) order
DistractionsOf(visits, date) ==
    SelectSeq(visits, LAMBDA v : v.date = date /\ v.category = "distraction")

RECURSIVE AggregateFirstVisit(_, _)
\* one entry per URL that holds the duration of the URL's first visit only
AggregateFirstVisit(visits, n) ==
    IF n = 0 THEN << >>
    ELSE LET urlMap == AggregateFirstVisit(visits, n - 1)
             v      == visits[n]
         IN  IF \E i \in DOMAIN urlMap : urlMap[i].url = v.url
             THEN urlMap
             ELSE Append(urlMap, [url |-> v.url, timeMs |-> v.durationMs])

RECURSIVE AggregateByUrl(_, _)
\* "Aggregate by URL": the Map's values, in insertion order, after the
\* first n visits
AggregateByUrl(visits, n) ==
    IF n = 0 THEN << >>
    ELSE LET urlMap == AggregateByUrl(visits, n - 1)
             v      == visits[n]
         IN  IF \E i \in DOMAIN urlMap : urlMap[i].url = v.url
             THEN [i \in DOMAIN urlMap |->
                     IF urlMap[i].url = v.url
                     THEN [urlMap[i] EXCEPT !.timeMs = @ + v.durationMs]
                     ELSE urlMap[i]]
             ELSE Append(urlMap, [url |-> v.url, timeMs |-> v.durationMs])

RECURSIVE SortByTime(_, _)
\* .sort((a, b) => b.timeMs - a.timeMs) of the first n entries: greatest
\* first, equal entries in their former order
SortByTime(entries, n) ==
    IF n = 0 THEN << >>
    ELSE LET sorted == SortByTime(entries, n - 1)
             e      == entries[n]
             before == SelectSeq(sorted, LAMBDA x : x.timeMs >= e.timeMs)
             after  == SelectSeq(sorted, LAMBDA x : x.timeMs < e.timeMs)
         IN  before \o <<e>> \o after

\* .slice(0, limit) for limit >= 0
SliceTo(entries, limit) == SubSeq(entries, 1, Min(limit, Len(entries)))

\* getTopDistractions(date, limit) on the visits stored
TopDistractions(visits, date, limit) ==
    LET distractions == DistractionsOf(visits, date)
        urlMap       == AggregateByUrl(distractions, Len(distractions))
    IN  SliceTo(SortByTime(urlMap, Len(urlMap)), limit)

InitTop ==
    /\ today = 2
    /\ dailyStats = << >>
    /\ siteVisits \in UNION {[1..n -> StoredVisits] : n \in 0..MaxStoredVisits}
    /\ interventionEvents = << >>
    /\ pending = << >>
    /\ InitEngine
    /\ InitDecideIdle
    /\ InitStreakIdle
    /\ InitAuxIdle

\* a call of getTopDistractions(date, limit); the default limit is 5
GetTopDistractions(date, limit) ==
    /\ callResult = NoCall
    /\ callArgs' = [fn |-> "getTopDistractions", date |-> date, limit |-> limit]
    /\ callResult' = [fn |-> "getTopDistractions",
                      entries |-> TopDistractions(siteVisits, date, limit)]

NextTop ==
    /\ UNCHANGED <<aggVars, engineVars, decideVars, streakVars, classifyVars,
                   trackerVars, failureVars, intentVars, monitorVars, overlayVars>>
    /\ \E date \in 1..2, limit \in {0, 1, 2, 5} : GetTopDistractions(date, limit)

SpecTop == InitTop /\ [][NextTop]_vars

----------------------------------------------------------------------------
(* IntentEngine: the cached intent *)

\* analyzeIntent calls in one behaviour
MaxAnalyses == 3

\* steps of the wall clock in one behaviour
MaxIntentTicks == 3

\* one step of the wall clock
IntentTickMs == 150000

\* the texts the oracle answers with
FullResponse == "{type:work,confidence:0.85,description:Writing code,focus:coding}"
ZeroResponse == "{type:work,confidence:0,description:,focus:coding}"
EmptyResponse == "{}"
NullResponse == "null"
ProseResponse == "Sorry, I cannot help with that"
OracleResponses ==
    {FullResponse, ZeroResponse, EmptyResponse, NullResponse, ProseResponse}

\* JSON.parse: the value of a JSON text, an object being a function from its
\* property names, or a SyntaxError; a confidence is in hundredths
JsonParse(text) ==
    CASE text = FullResponse ->
            [ok |-> TRUE, isNull |-> FALSE,
             value |-> [type |-> "work", confidence |-> 85,
                        description |-> "Writing code", focus |-> "coding"]]
      [] text = ZeroResponse ->
            [ok |-> TRUE, isNull |-> FALSE,
             value |-> [type |-> "work", confidence |-> 0,
                        description |-> "", focus |-> "coding"]]
      [] text = EmptyResponse ->
            [ok |-> TRUE, isNull |-> FALSE, value |-> << >>]
      [] text = NullResponse ->
            [ok |-> TRUE, isNull |-> TRUE, value |-> << >>]
      [] OTHER -> [ok |-> FALSE, isNull |-> FALSE, value |-> << >>]

\* object[name] || default, for a text and for a number: an absent property,
\* the empty text and zero are falsy
TextOr(object, name, default) ==
    IF name \in DOMAIN object /\ object[name] # "" THEN object[name] ELSE default

NumberOr(object, name, default) ==
    IF name \in DOMAIN object /\ object[name] # 0 THEN object[name] ELSE default

CreateIdleIntent(t) ==
    [type |-> "other", confidence |-> 100, description |-> "No recent activity",
     focus |-> "idle", timestamp |-> t, patternCount |-> 0]

CreateErrorIntent(t) ==
    [type |-> "other", confidence |-> 0,
     description |-> "Unable to determine intent",
     focus |-> "unknown", timestamp |-> t, patternCount |-> 0]

\* parseIntentResponse: reading a property of null throws a TypeError, which
\* the catch block receives like a SyntaxError
ParseIntentResponse(response, patterns, t) ==
    LET parsed == JsonParse(response) IN
    IF parsed.ok /\ ~parsed.isNull
    THEN [type |-> TextOr(parsed.value, "type", "other"),
          confidence |-> NumberOr(parsed.value, "confidence", 50),
          description |-> TextOr(parsed.value, "description", "Unknown intent"),
          focus |-> TextOr(parsed.value, "focus", "general"),
          timestamp |-> t, patternCount |-> Len(patterns)]
    ELSE CreateErrorIntent(t)

\* getRecentPatterns(timeWindow) over this.patterns, given as timestamps
GetRecentPatterns(patterns, timeWindow, t) ==
    SelectSeq(patterns, LAMBDA stamp : stamp > t - timeWindow)

\* the pattern lists handed to analyzeIntent: timestamps before the clock
IntentPatternInputs(t) ==
    {<< >>, <<t - 2400000>>, <<t - 60000>>, <<t - 2400000, t - 60000>>}

\* an analyzeIntent call suspended at the await of the oracle
AwaitingOracle == [fn |-> "analyzeIntent", awaiting |-> TRUE]

\* analyzeIntent up to its first return or its await
AnalyzeIntent(patterns) ==
    /\ callResult # AwaitingOracle
    /\ callArgs.fn \in {"none", "analyzeIntent"}
    /\ (callArgs.fn = "analyzeIntent") => callArgs.calls < MaxAnalyses
    /\ LET calls == IF callArgs.fn = "none" THEN 1 ELSE callArgs.calls + 1
           recentPatterns == GetRecentPatterns(patterns, ThirtyMinutes, now)
           args == [fn |-> "analyzeIntent", calls |-> calls, now |-> now,
                    recentPatterns |-> recentPatterns]
       IN  /\ callArgs' = args
           /\ IF now - lastAnalysis < FiveMinutes /\ currentIntent # NoIntent
              THEN callResult' = [fn |-> "analyzeIntent", awaiting |-> FALSE,
                                  cached |-> TRUE, intent |-> currentIntent]
              ELSE IF Len(recentPatterns) = 0
              THEN callResult' = [fn |-> "analyzeIntent", awaiting |-> FALSE,
                                  cached |-> FALSE,
                                  intent |-> CreateIdleIntent(now)]
              ELSE callResult' = AwaitingOracle
    /\ UNCHANGED <<now, intentVars>>

\* the oracle answers: the rest of the try block
OracleAnswers(response) ==
    /\ callResult = AwaitingOracle
    /\ LET intent == ParseIntentResponse(response, callArgs.recentPatterns, now)
       IN  /\ currentIntent' = intent
           /\ lastAnalysis' = callArgs.now
           /\ callResult' = [fn |-> "analyzeIntent", awaiting |-> FALSE,
                             cached |-> FALSE, intent |-> intent]
    /\ UNCHANGED <<now, callArgs>>

\* the oracle call rejects: the catch block
OracleThrows ==
    /\ callResult = AwaitingOracle
    /\ callResult' = [fn |-> "analyzeIntent", awaiting |-> FALSE,
                      cached |-> FALSE, intent |-> CreateErrorIntent(now)]
    /\ UNCHANGED <<now, callArgs, intentVars>>

\* the wall clock advances
IntentTick ==
    /\ now < MinInterventionInterval + MaxIntentTicks * IntentTickMs
    /\ now' = now + IntentTickMs
    /\ UNCHANGED <<callVars, intentVars>>

InitIntent ==
    /\ InitAgg
    /\ InitEngine
    /\ InitDecideIdle
    /\ InitStreakIdle
    /\ InitAuxIdle

NextIntent ==
    /\ UNCHANGED <<aggVars, storedLastInterventionTime, lastInterventionTime,
                   userState, sessionStart, checks, delivered, checksStarted,
                   interventions, managerStore, decideVars, streakVars,
                   classifyVars, trackerVars, failureVars, overlayVars,
                   monitorVars>>
    /\ \/ \E patterns \in IntentPatternInputs(now) : AnalyzeIntent(patterns)
       \/ \E response \in OracleResponses : OracleAnswers(response)
       \/ OracleThrows
       \/ IntentTick

SpecIntent == InitIntent /\ [][NextIntent]_vars

-----------------------------------------------------------------------------
(* BehaviorMonitor: the time spent on a tab *)

\* patterns created in one behaviour
MaxSessionPatterns == 3

\* steps of the wall clock in one behaviour, and the length of one in ms
MaxMonitorTicks == 4
MonitorStepMs == 600

\* a duration is recorded only above this many ms
MinDurationMs == 1000

\* the tab ids of the monitor's events
MonitorTabs == 1..2

\* the index of the pattern that filter(p => p.duration === 0).pop() returns,
\* or 0 when it returns undefined
LastZeroDuration(patterns) ==
    LET zeros == {i \in DOMAIN patterns : patterns[i].duration = 0}
    IN  IF zeros = {} THEN 0 ELSE CHOOSE i \in zeros : \A j \in zeros : j <= i

\* recordTabDuration(_tabId, duration): sessionPatterns afterwards. Fields tab
\* (the tab whose navigation created the pattern), writtenFor and writes are
\* the model's record of the history; the program's patterns hold no tab id.
RecordTabDuration(patterns, tabId, duration) ==
    LET i == LastZeroDuration(patterns) IN
    IF i # 0 /\ duration > MinDurationMs
    THEN [patterns EXCEPT ![i] = [@ EXCEPT !.duration = duration,
                                           !.writtenFor = tabId,
                                           !.writes = @ + 1]]
    ELSE patterns

\* handleTabChange(tabId)
HandleTabChange(tabId) ==
    /\ sessionPatterns' =
          IF activeTab # NoActiveTab
          THEN RecordTabDuration(sessionPatterns, activeTab,
                                 now - monitorTabStartTime)
          ELSE sessionPatterns
    /\ activeTab' = tabId
    /\ monitorTabStartTime' = now
    /\ UNCHANGED now

\* handleNavigation(tabId, url)
HandleNavigation(tabId) ==
    /\ Len(sessionPatterns) < MaxSessionPatterns
    /\ sessionPatterns' =
          Append(sessionPatterns,
                 [tab |-> tabId, duration |-> 0,
                  writtenFor |-> NoActiveTab, writes |-> 0])
    /\ UNCHANGED <<now, activeTab, monitorTabStartTime>>

\* handleTabClose(tabId)
HandleTabClose(tabId) ==
    /\ IF activeTab = tabId
       THEN /\ sessionPatterns' =
                  RecordTabDuration(sessionPatterns, tabId,
                                    now - monitorTabStartTime)
            /\ activeTab' = NoActiveTab
       ELSE UNCHANGED <<sessionPatterns, activeTab>>
    /\ UNCHANGED <<now, monitorTabStartTime>>

\* the wall clock advances
MonitorTick ==
    /\ now < MinInterventionInterval + MaxMonitorTicks * MonitorStepMs
    /\ now' = now + MonitorStepMs
    /\ UNCHANGED monitorVars

InitMonitor ==
    /\ InitAgg
    /\ InitEngine
    /\ InitDecideIdle
    /\ InitStreakIdle
    /\ InitAuxIdle

NextMonitor ==
    /\ UNCHANGED <<aggVars, storedLastInterventionTime, lastInterventionTime,
                   userState, sessionStart, checks, delivered, checksStarted,
                   interventions, managerStore, decideVars, streakVars,
                   classifyVars, trackerVars, failureVars, overlayVars,
                   callVars, intentVars>>
    /\ \/ \E tabId \in MonitorTabs : HandleTabChange(tabId)
       \/ \E tabId \in MonitorTabs : HandleNavigation(tabId)
       \/ \E tabId \in MonitorTabs : HandleTabClose(tabId)
       \/ MonitorTick

SpecMonitor == InitMonitor /\ [][NextMonitor]_vars

-----------------------------------------------------------------------------
(* service worker: visits open while the UTC date changes *)

MsPerDay == 86400000
\* the alarm period's half
HalfMinute == 31000

\* new Date(t).toISOString().split("T")[0], as a day number: day 1 is the
\* day of the epoch
DayOf(t) == t \div MsPerDay + 1

\* the service worker is loaded a minute before midnight (UTC) of day 1
InitMidnight ==
    /\ InitAgg
    /\ now = MsPerDay - 2 * HalfMinute
    /\ storedLastInterventionTime = 0
    /\ lastInterventionTime = 0
    /\ userState = InitialUserState
    /\ sessionStart = MsPerDay - 2 * HalfMinute
    /\ checks = << >>
    /\ delivered = << >>
    /\ checksStarted = 0
    /\ InitManagerStore
    /\ InitDecideIdle
    /\ InitStreakIdle
    /\ InitClassifyIdle
    /\ currentTab = NoTab
    /\ tabStartTime = MsPerDay - 2 * HalfMinute
    /\ handlers = << >>
    /\ recorded = << >>
    /\ shortClosed = FALSE
    /\ InitLateIdle

\* time passes, and with it the date that new Date() gives
ClockTick ==
    /\ now < MsPerDay + (MaxTrackerTicks - 3) * HalfMinute
    /\ now' = now + HalfMinute
    /\ today' = DayOf(now')
    /\ UNCHANGED <<dailyStats, siteVisits, interventionEvents, pending,
                   storedLastInterventionTime, lastInterventionTime,
                   userState, sessionStart, checks, delivered, checksStarted,
                   managerStore, trackerVars>>

NextMidnight ==
    /\ UNCHANGED <<decideVars, streakVars, classifyVars, lateVars>>
    /\ \/ \E tab \in Tabs : OnActivated(tab)
       \/ \E i \in DOMAIN handlers : FinishActivated(i)
       \/ \E tab \in Tabs : OnUpdated(tab)
       \/ \E i \in DOMAIN handlers : FinishUpdated(i)
       \/ OnFocusLost
       \/ OnFocusGained
       \/ OnAlarm
       \/ \E i \in DOMAIN handlers : FinishAlarm(i)
       \/ ClockTick
       \/ \E i \in DOMAIN checks : SwReadStats(i) /\ UNCHANGED <<aggVars, trackerVars>>
       \/ \E i \in DOMAIN pending :
             ReadDailyStats(i) /\ UNCHANGED <<engineVars, trackerVars>>
       \/ \E i \in DOMAIN pending :
             PutDailyStats(i) /\ UNCHANGED <<engineVars, trackerVars>>

\* the browser's events around midnight
SpecMidnight == InitMidnight /\ [][NextMidnight]_vars

----------------------------------------------------------------------------
(* content script: InterventionWrapper and InterventionOverlay *)

\* interventions sent to one page
MaxShown == 2
\* clicks on the overlay's controls
MaxClicks == 3

\* useState<Intervention | null>(null); undefined is falsy as null is
NoData == 0

\* the action types of the overlay's action button
ActionTypes == {"open_url"}

\* handleMessage, SHOW_INTERVENTION: setIntervention(message.data); data is
\* an intervention not sent before, or is missing from the message
HandleMessage(data) ==
    /\ data # NoData => data \notin shown
    /\ overlayIntervention' = data
    /\ shown' = IF data = NoData THEN shown ELSE shown \cup {data}
    /\ UNCHANGED <<timers, responses>>

\* InterventionOverlay.handleDismiss: setIsExiting(true), which no handler
\* reads, and a 300 ms timer that will call the onDismiss of this render,
\* whose closure holds the intervention now displayed
HandleDismiss ==
    /\ overlayIntervention # NoData
    /\ Len(timers) + Len(responses) < MaxClicks
    /\ timers' = Append(timers, [outcome |-> "dismissed",
                                 intervention |-> overlayIntervention])
    /\ UNCHANGED <<overlayIntervention, responses, shown>>

\* InterventionOverlay.handleAction(action): likewise with onAction(action)
HandleAction(action) ==
    /\ overlayIntervention # NoData
    /\ Len(timers) + Len(responses) < MaxClicks
    /\ timers' = Append(timers, [outcome |-> action,
                                 intervention |-> overlayIntervention])
    /\ UNCHANGED <<overlayIntervention, responses, shown>>

\* the oldest timer fires: the wrapper's handleDismiss or handleAction of
\* the render that was clicked tests its own intervention, sends
\* INTERVENTION_RESPONSE and calls setIntervention(null)
ExitTimer ==
    /\ timers # << >>
    /\ LET timer == Head(timers)
       IN  /\ responses' =
                 IF timer.intervention = NoData THEN responses
                 ELSE Append(responses, [interventionId |-> timer.intervention,
                                         outcome |-> timer.outcome])
           /\ overlayIntervention' =
                 IF timer.intervention = NoData THEN overlayIntervention
                 ELSE NoData
    /\ timers' = Tail(timers)
    /\ UNCHANGED shown

NextOverlay ==
    /\ UNCHANGED <<aggVars, decideVars, streakVars, classifyVars, trackerVars,
                   failureVars, intentVars, monitorVars, callVars>>
    /\ UNCHANGED <<now, storedLastInterventionTime, lastInterventionTime,
                   userState, sessionStart, checks, delivered, checksStarted,
                   interventions, interventionQueue, engineDailyStats>>
    /\ \/ \E data \in 1..MaxShown : HandleMessage(data)
       \/ HandleMessage(NoData)
       \/ HandleDismiss
       \/ \E a \in ActionTypes : HandleAction(a)
       \/ ExitTimer

\* one page's overlay: messages, clicks and the exit timers in any order
SpecOverlay == Init /\ [][NextOverlay]_vars

----------------------------------------------------------------------------
(* SHOW_INTERVENTION from the background to the overlay *)

\* the object literal that showIntervention sends; it has no id
WorkerIntervention == 100

\* showIntervention: { type: "SHOW_INTERVENTION", intervention: {...} }
WorkerMessage ==
    [type |-> "SHOW_INTERVENTION", intervention |-> WorkerIntervention]

\* triggerIntervention: { type: "SHOW_INTERVENTION", intervention }
ManagerMessage(intervention) ==
    [type |-> "SHOW_INTERVENTION", intervention |-> intervention]

\* message[name]: a property the object lacks reads as undefined
Property(message, name) ==
    IF name \in DOMAIN message THEN message[name] ELSE NoData

\* chrome.tabs.sendMessage reaches InterventionWrapper's handleMessage:
\* setIntervention(message.data)
ReceiveMessage(message) ==
    /\ overlayIntervention' =
          IF message.type = "SHOW_INTERVENTION" THEN Property(message, "data")
          ELSE overlayIntervention
    /\ callArgs' = [fn |-> "sendMessage", message |-> message]
    /\ UNCHANGED <<timers, responses, callResult>>

\* the message finds no receiver
NotReceived == UNCHANGED <<overlayVars, callVars>>

InitShow ==
    /\ today = 1
    /\ dailyStats = DistractedDay
    /\ siteVisits = << >>
    /\ interventionEvents = << >>
    /\ pending = << >>
    /\ InitEngine
    /\ InitDecideIdle
    /\ InitStreakIdle
    /\ InitAuxIdle

NextShow ==
    /\ UNCHANGED <<aggVars, decideVars, streakVars, classifyVars, trackerVars,
                   failureVars, intentVars, monitorVars>>
    /\ \/ CheckForIntervention(FiveMinutes) /\ NotReceived
       \/ \E i \in DOMAIN checks : SwReadStats(i) /\ NotReceived
       \/ \E i \in DOMAIN checks : SwReadCooldown(i) /\ NotReceived
       \/ \E i \in DOMAIN checks :
             \/ SwShowIntervention(i, TRUE) /\ ReceiveMessage(WorkerMessage)
             \/ SwShowIntervention(i, FALSE) /\ NotReceived
       \/ \E i \in DOMAIN checks : SwSetLastTime(i) /\ NotReceived
       \/ CheckAndIntervene /\ NotReceived
       \/ \E i \in DOMAIN checks, p \in {DistractedPatterns, LowFocusPatterns} :
             MgrDecide(i, p, NoTask, "throws") /\ NotReceived
       \/ \E i \in DOMAIN checks : MgrQueue(i) /\ NotReceived
       \/ \E i \in DOMAIN checks :
             \/ /\ MgrTrigger(i, TRUE)
                /\ ReceiveMessage(ManagerMessage(checks[i].intervention))
             \/ MgrTrigger(i, FALSE) /\ NotReceived
       \/ \E i \in DOMAIN checks : MgrStamp(i) /\ NotReceived
       \/ \E i \in DOMAIN checks : MgrUpdateDailyStats(i) /\ NotReceived

\* both senders and the overlay that listens in the active tab
SpecShow == InitShow /\ [][NextShow]_vars

----------------------------------------------------------------------------
(* service worker: the active tab and the tab that is timed *)

\* the browser activates a tab: onActivated runs, and the tab is the active
\* one from now on
Activate(tab) ==
    /\ OnActivated(tab)
    /\ callArgs' = [fn |-> "onActivated", tabId |-> tab.id]
    /\ UNCHANGED callResult

NextTabs ==
    /\ UNCHANGED <<decideVars, streakVars, classifyVars, failureVars, intentVars,
                   monitorVars, overlayVars>>
    /\ \/ \E tab \in Tabs : Activate(tab)
       \/ \E i \in DOMAIN handlers : FinishActivated(i) /\ UNCHANGED callVars
       \/ \E tab \in Tabs : OnUpdated(tab) /\ UNCHANGED callVars
       \/ \E i \in DOMAIN handlers : FinishUpdated(i) /\ UNCHANGED callVars
       \/ Tick /\ UNCHANGED callVars
       \/ \E i \in DOMAIN checks :
             SwReadStats(i) /\ UNCHANGED <<aggVars, trackerVars, callVars>>
       \/ \E i \in DOMAIN pending :
             ReadDailyStats(i) /\ UNCHANGED <<engineVars, trackerVars, callVars>>
       \/ \E i \in DOMAIN pending :
             PutDailyStats(i) /\ UNCHANGED <<engineVars, trackerVars, callVars>>

\* tabs are activated, and pages finish loading in any tab
SpecTabs == InitTracker /\ [][NextTabs]_vars

----------------------------------------------------------------------------
(* The periodic check while the oracle is awaited *)

\* checkAndIntervene on a store of low-focus visits reaches
\* getAISuggestions, which awaits aiClient.analyzeIntent: the run goes on
\* when the fetch settles, with the oracle's result
OracleSettles(i, oracle) ==
    MgrDecide(i, LowFocusPatterns, NoTask, oracle)

NextOracle ==
    /\ UNCHANGED <<aggVars, decideVars, streakVars, auxVars>>
    /\ \/ CheckAndIntervene
       \/ \E i \in DOMAIN checks, o \in OracleResults : OracleSettles(i, o)
       \/ \E i \in DOMAIN checks : MgrQueue(i)
       \/ \E i \in DOMAIN checks : MgrStamp(i)
       \/ \E i \in DOMAIN checks : MgrUpdateDailyStats(i)
       \/ \E id \in DOMAIN interventions : DismissIntervention(id)

\* the steps of the run that wait for the extension's own storage are taken
\* in the end; analyzeIntent's fetch has no timeout and no abort signal, so
\* nothing makes the oracle settle
FairOracle ==
    LET rest == <<aggVars, decideVars, streakVars, auxVars>>
    IN  /\ WF_vars(\E i \in DOMAIN checks : MgrQueue(i) /\ UNCHANGED rest)
        /\ WF_vars(\E i \in DOMAIN checks : MgrStamp(i) /\ UNCHANGED rest)
        /\ WF_vars(\E i \in DOMAIN checks : MgrUpdateDailyStats(i) /\ UNCHANGED rest)

SpecOracle == Init /\ [][NextOracle]_vars /\ FairOracle

----------------------------------------------------------------------------
(* Storage failures while a visit is recorded *)

\* recordSiteVisit: store.add fails, request.onerror rejects the promise
\* that recordTabVisit awaits inside its try block; nothing is stored
FailSiteVisitAdd ==
    /\ caughtErrors' = caughtErrors \cup {"add"}
    /\ UNCHANGED <<aggVars, escaped>>

\* updateDailyStats: getDailyStats rejects; the promise of updateDailyStats
\* rejects, and recordSiteVisit's onsuccess neither awaits nor catches it
FailGetDailyStats(i) ==
    /\ pending[i].pc = "get"
    /\ pending' = RemoveAt(pending, i)
    /\ escaped' = escaped \cup {"get"}
    /\ UNCHANGED <<today, dailyStats, siteVisits, interventionEvents, caughtErrors>>

\* updateDailyStats: store.put fails and the promise rejects, likewise
FailPutDailyStats(i) ==
    /\ pending[i].pc = "put"
    /\ pending' = RemoveAt(pending, i)
    /\ escaped' = escaped \cup {"put"}
    /\ UNCHANGED <<today, dailyStats, siteVisits, interventionEvents, caughtErrors>>

NextFailure ==
    /\ UNCHANGED <<engineVars, decideVars, streakVars, classifyVars, trackerVars,
                   overlayVars, callVars, intentVars, monitorVars>>
    /\ \/ \E c \in Categories, d \in Durations :
             RecordSiteVisit(c, d) /\ UNCHANGED failureVars
       \/ \E i \in DOMAIN pending : ReadDailyStats(i) /\ UNCHANGED failureVars
       \/ \E i \in DOMAIN pending : PutDailyStats(i) /\ UNCHANGED failureVars
       \/ FailSiteVisitAdd
       \/ \E i \in DOMAIN pending : FailGetDailyStats(i)
       \/ \E i \in DOMAIN pending : FailPutDailyStats(i)

\* visits are recorded while any storage request may fail
SpecFailure == Init /\ [][NextFailure]_vars

----------------------------------------------------------------------------
(* getCurrentStreak, called on a fixed store *)

InitStreak ==
    /\ today = StreakToday
    /\ siteVisits = << >>
    /\ interventionEvents = << >>
    /\ pending = << >>
    /\ InitEngine
    /\ InitDecideIdle
    /\ InitAuxIdle
    /\ streakCall = StreakIdle
    /\ \/ /\ utcHour \in {0, 12, 23}
          /\ timezone \in Timezones
          /\ \/ \E n \in 0..MaxShortRun, score \in {70, 80}, gap \in {"missing", "low"} :
                   dailyStats = StreakStore(n, score, gap)
             \/ dailyStats = ExampleStore
       \/ /\ utcHour = 12
          /\ timezone = Utc
          /\ \E n \in (StreakLimit - 1)..MaxStreakDays, gap \in {"missing", "low"} :
                dailyStats = StreakStore(n, 80, gap)

NextStreak ==
    /\ UNCHANGED <<aggVars, engineVars, decideVars, auxVars>>
    /\ \/ GetCurrentStreak
       \/ StreakStep

\* getCurrentStreak over a store that does not change meanwhile
SpecStreak == InitStreak /\ [][NextStreak]_vars

----------------------------------------------------------------------------
(* Claims about the aggregator *)

Days == 1..MaxDay

RECURSIVE VisitSum(_, _)
\* the sum of durationMs of the visits persisted for date among the first n
VisitSum(date, n) ==
    IF n = 0 THEN 0
    ELSE VisitSum(date, n - 1)
         + (IF siteVisits[n].date = date THEN siteVisits[n].durationMs ELSE 0)

EventCount(date) ==
    Cardinality({i \in DOMAIN interventionEvents : interventionEvents[i].date = date})

\* C1: when every recording's aggregation has run to completion before the
\* next recording starts, the three time buckets of each date's DailyStats
\* add up to the durations of all SiteVisit records persisted for that date.
C1_BucketsEqualVisitSum ==
    pending = << >> =>
        \A d \in Days : TotalTime(GetDailyStats(d)) = VisitSum(d, Len(siteVisits))

\* two visits of one date, in different buckets, both aggregated
C1_Witness ==
    /\ pending = << >>
    /\ Len(siteVisits) = 2
    /\ siteVisits[1].date = siteVisits[2].date
    /\ siteVisits[1].category # siteVisits[2].category
    /\ TotalTime(GetDailyStats(siteVisits[1].date))
         = siteVisits[1].durationMs + siteVisits[2].durationMs

\* C2: no lost update: once all the interleaved recordings of a date have
\* completed, its DailyStats reflects every one of them (all the visits'
\* durations and all the intervention events).
C2_NoLostUpdate ==
    pending = << >> =>
        \A d \in Days :
            /\ TotalTime(GetDailyStats(d)) = VisitSum(d, Len(siteVisits))
            /\ GetDailyStats(d).interventionsTriggered = EventCount(d)

\* C3: the productivityScore of every stored DailyStats record is an
\* integer in 0..100.
C3_ScoreInRange ==
    \A d \in DOMAIN dailyStats : dailyStats[d].productivityScore \in 0..100

\* a stored record whose raw score, 100 + 10, is above the clamp
C3_Witness ==
    \E d \in DOMAIN dailyStats :
        /\ dailyStats[d].focusTimeMs > 0
        /\ dailyStats[d].distractionTimeMs = 0
        /\ dailyStats[d].neutralTimeMs = 0
        /\ dailyStats[d].interventionsAccepted > 0
        /\ dailyStats[d].productivityScore = 100

\* the claimed score of a record, as a relation: s is the rounding (ties up)
\* of clamp(raw, 0, 100), with raw = num/den,
\*   num/den = (focus/total)*100 - (distraction/total)*30
\*             + min((accepted / max(triggered, 1)) * 10, 10)
IsClaimedScore(stats, s) ==
    LET total == TotalTime(stats)
        m     == Max(stats.interventionsTriggered, 1)
        den   == total * m
        num   == 100 * stats.focusTimeMs * m - 30 * stats.distractionTimeMs * m
                 + Min(10 * stats.interventionsAccepted * total, 10 * den)
    IN  \/ num < 0 /\ s = 0
        \/ num > 100 * den /\ s = 100
        \/ /\ 0 <= num
           /\ num <= 100 * den
           /\ (2 * s - 1) * den <= 2 * num
           /\ 2 * num < (2 * s + 1) * den

WorkedExample ==
    [ date                   |-> 1,
      focusTimeMs            |-> 3600000,
      distractionTimeMs      |-> 1800000,
      neutralTimeMs          |-> 600000,
      interventionsTriggered |-> 4,
      interventionsAccepted  |-> 2,
      interventionsDismissed |-> 2,
      interventionsSnoozed   |-> 0,
      productivityScore      |-> 0 ]

\* C4: every stored record with a positive total time carries the score of
\* the formula, computed from its own fields, whichever path wrote it; the
\* worked example scores 56 on the visit path and on the intervention path.
C4_ScoreFormula ==
    /\ \A d \in DOMAIN dailyStats :
          TotalTime(dailyStats[d]) > 0 =>
              IsClaimedScore(dailyStats[d], dailyStats[d].productivityScore)
    /\ \A i \in DOMAIN pending :
          pending[i].pc = "put" /\ pending[i].stats.interventionsTriggered > 0
          /\ TotalTime(pending[i].stats) > 0
          => VisitScore(pending[i].stats) = InterventionScore(pending[i].stats)
    /\ VisitScore(WorkedExample) = 56
    /\ InterventionScore(WorkedExample) = 56

\* a record written by both paths: a visit and an intervention outcome
C4_Witness ==
    /\ pending = << >>
    /\ \E d \in DOMAIN dailyStats :
          /\ dailyStats[d].focusTimeMs > 0
          /\ dailyStats[d].interventionsAccepted = 1
          /\ dailyStats[d].productivityScore = 100

\* C5: every DailyStats record counts each triggered intervention under
\* exactly one outcome: triggered = accepted + dismissed + snoozed, for
\* every outcome the on-page sink sends.
C5_TriggeredIsSumOfOutcomes ==
    \A d \in DOMAIN dailyStats :
        dailyStats[d].interventionsTriggered
          = dailyStats[d].interventionsAccepted
            + dailyStats[d].interventionsDismissed
            + dailyStats[d].interventionsSnoozed

----------------------------------------------------------------------------
(* Claims about the cooldown and the decision *)

\* C6: within any time window shorter than the minimum intervention
\* interval (600000 ms) at most one intervention is delivered to the
\* on-page sink: any two deliveries are at least the interval apart.
C6_AtMostOneDeliveryPerWindow ==
    \A i, j \in DOMAIN delivered :
        i < j => delivered[j] - delivered[i] >= 600000

\* C7: the last-intervention timestamp advances only when the evaluation
\* delivered an intervention to the sink: a check that did not (the
\* intervention was only queued, or the send failed) and finishes leaves
\* both timestamps unchanged.
C7_TimestampOnlyOnDelivery ==
    [][\A i \in DOMAIN checks :
          (checks[i].pc \in {"set", "stamp"} /\ ~checks[i].sent
           /\ \/ checks' = RemoveAt(checks, i)
              \/ checks' = [checks EXCEPT ![i].pc = "stats"])
          => UNCHANGED <<storedLastInterventionTime, lastInterventionTime>>]_vars

\* C8: determineIntervention returns the intervention of the first rule
\* that matches, in the order distraction_warning/high, break_suggestion/
\* medium, focus_reminder/medium, goal_check/medium, and null when none does.
C8_FirstMatchingRuleWins ==
    decision # Undecided =>
        LET st == decideInput.state
            r1 == st.distractionScore > 70
            r2 == st.sessionDuration > 90 * 60 * 1000 /\ st.breaksSinceFocus = 0
            r3 == st.focusLevel < 30
            r4 == /\ decideInput.activeTask # NoTask
                  /\ ~IsActivityRelevantToTask(decideInput.patterns,
                                               decideInput.activeTask)
        IN  /\ r1 => decision.type = "distraction_warning" /\ decision.priority = "high"
            /\ ~r1 /\ r2 =>
                  decision.type = "break_suggestion" /\ decision.priority = "medium"
            /\ ~r1 /\ ~r2 /\ r3 =>
                  decision.type = "focus_reminder" /\ decision.priority = "medium"
            /\ ~r1 /\ ~r2 /\ ~r3 /\ r4 =>
                  decision.type = "goal_check" /\ decision.priority = "medium"
            /\ ~r1 /\ ~r2 /\ ~r3 /\ ~r4 => decision = NoIntervention

\* distractionScore 80 in a break-less session of 100 minutes: rules 1 and
\* 2 both match, and the decision is the distraction warning
C8_Witness ==
    /\ decideInput.state.distractionScore = 80
    /\ decideInput.state.sessionDuration = 6000000
    /\ decideInput.state.breaksSinceFocus = 0
    /\ decision.type = "distraction_warning"

----------------------------------------------------------------------------
(* Claims about the streak *)

RECURSIVE QualifyingRun(_)
\* the number of consecutive days, back from day d, that have a stored
\* record with a score of at least 70
QualifyingRun(d) ==
    IF d \in DOMAIN dailyStats /\ dailyStats[d].productivityScore >= 70
    THEN 1 + QualifyingRun(d - 1)
    ELSE 0

\* C9: getCurrentStreak returns the number of consecutive days, back from
\* today, whose stored score is at least 70; the first day below 70 or
\* without a record ends the count and is never skipped.
C9_StreakIsQualifyingRun ==
    streakCall.pc = "done" => streakCall.streak = QualifyingRun(today)

\* C10: getCurrentStreak inspects at most 365 days and returns at most 365.
C10_StreakCappedAt365 ==
    streakCall.inspected <= 365 /\ streakCall.streak <= 365

----------------------------------------------------------------------------
(* Claims about the range query *)

\* C11: for every date d, stored or not, getStatsForRange(d, d) is the
\* one-element list holding getDailyStatsForDate(d).
C11_RangeOfOneDay ==
    \A d \in Days : GetStatsForRange(d, d) = <<GetDailyStats(d)>>

----------------------------------------------------------------------------
(* Claims about the tab timer *)

\* C12: no visit under 5000 ms contributes to a DailyStats time bucket:
\* every persisted visit lasted at least 5000 ms, and each day's buckets
\* hold no more than that day's persisted visits and no amount under 5000.
C12_ShortVisitsNeverCounted ==
    /\ \A i \in DOMAIN siteVisits : siteVisits[i].durationMs >= 5000
    /\ \A d \in DOMAIN dailyStats :
          /\ TotalTime(dailyStats[d]) <= VisitSum(d, Len(siteVisits))
          /\ \A t \in { dailyStats[d].focusTimeMs, dailyStats[d].distractionTimeMs,
                        dailyStats[d].neutralTimeMs } : t = 0 \/ t >= 5000

\* a handler closed a dwell of 5000 ms or less, a longer visit was recorded
\* and aggregated
C12_Witness ==
    /\ shortClosed
    /\ siteVisits # << >>
    /\ \E d \in DOMAIN dailyStats : TotalTime(dailyStats[d]) > 0

\* C13: each closed visit is recorded once: no stretch of time lies in two
\* recorded visits (a later recorded visit starts no earlier than the
\* previous one ended).
C13_NoStretchRecordedTwice ==
    \A i, j \in DOMAIN recorded :
        i < j => recorded[j].startTime >= recorded[i].endTime

----------------------------------------------------------------------------
(* Claims about categorizeURL *)

\* C14: categorizeURL is total and applies the precedence distraction >
\* productive > work > neutral to the lowercased URL: a URL with a
\* distraction entry is distraction/entertainment whatever else it matches,
\* one with a productive entry (and no distraction entry) is
\* productive/learning, one with only a work entry is productive/work, and
\* one matching no entry is neutral/general.
C14_ClassifierPrecedence ==
    classified # NotClassified =>
        LET lowerUrl == LowerCase(classifyUrl)
            d == \E i \in DOMAIN DistractionSites : Includes(lowerUrl, DistractionSites[i])
            p == \E i \in DOMAIN ProductiveSites : Includes(lowerUrl, ProductiveSites[i])
            w == \E i \in DOMAIN WorkSites : Includes(lowerUrl, WorkSites[i])
        IN  /\ d => classified = [category |-> "distraction", subcategory |-> "entertainment"]
            /\ ~d /\ p => classified = [category |-> "productive", subcategory |-> "learning"]
            /\ ~d /\ ~p /\ w => classified = [category |-> "productive", subcategory |-> "work"]
            /\ ~d /\ ~p /\ ~w => classified = [category |-> "neutral", subcategory |-> "general"]

\* https://docs.youtube.com matches a productive entry ("docs.") and a
\* distraction entry, and is classified as a distraction
C14_Witness ==
    /\ classifyUrl =
         <<"h", "t", "t", "p", "s", ":", "/", "/", "d", "o", "c", "s", ".", "y", "o", "u", "t", "u", "b", "e", ".", "c", "o", "m">>
    /\ classified.category = "distraction"

----------------------------------------------------------------------------
(* Claims about the interventions' lifecycle *)

\* C15: recording an outcome is idempotent per intervention id: once an
\* intervention is dismissed, no later step changes its stored outcome or
\* its dismissedAt.
C15_FirstOutcomeWins ==
    [][\A id \in DOMAIN interventions :
          interventions[id].dismissed =>
             /\ interventions'[id].dismissed
             /\ interventions'[id].dismissedAt = interventions[id].dismissedAt]_vars

\* C16: an intervention is stored with triggered = true only if the sink
\* received it.
C16_TriggeredOnlyIfDelivered ==
    \A id \in DOMAIN interventions : interventions[id].triggered => id \in shown

\* C17: the lifecycle is created -> triggered -> outcome: an intervention
\* that has an outcome was triggered before.
C17_OutcomeOnlyAfterTriggered ==
    \A id \in DOMAIN interventions :
        interventions[id].dismissed => interventions[id].triggered

\* C18: every recorded outcome reached the aggregator's recordIntervention:
\* there are at least as many intervention events as interventions with a
\* recorded outcome.
C18_EveryOutcomeReachesAggregator ==
    Cardinality({id \in DOMAIN interventions : interventions[id].dismissed})
        <= Len(interventionEvents)

\* C19: the decision engine writes no dailyStats record: after any number of
\* periodic evaluations its database holds none.
C19_EngineWritesNoDailyStats ==
    DOMAIN engineDailyStats = {}

----------------------------------------------------------------------------
(* Claims about rule 4 *)

\* the relevance test as stated: a productivity or development visit, or a
\* title word of more than 3 characters contained in the visit's domain
StatedRelevant(patterns, task) ==
    LET recent == LastN(patterns, 5)
        words  == SplitSpace(LowerCase(task.title))
    IN  \E i \in DOMAIN recent :
            \/ recent[i].category \in {"productivity", "development"}
            \/ \E k \in DOMAIN words :
                  /\ Len(words[k]) > 3
                  /\ Includes(LowerCase(recent[i].domain), words[k])

\* C20: with an active task and rules 1-3 not matching, goal_check is
\* returned exactly when none of the last 5 visits is relevant, where only
\* title words longer than 3 characters can make a visit relevant.
C20_GoalCheckIffNoRelevantVisit ==
    (/\ decision # Undecided
     /\ decideInput.activeTask # NoTask
     /\ decideInput.state.distractionScore <= 70
     /\ ~(decideInput.state.sessionDuration > 90 * 60 * 1000
          /\ decideInput.state.breaksSinceFocus = 0)
     /\ decideInput.state.focusLevel >= 30)
    => (decision.type = "goal_check"
          <=> ~StatedRelevant(decideInput.patterns, decideInput.activeTask))

----------------------------------------------------------------------------
(* Claims about the oracle *)

\* C22: when focusLevel < 30, rules 1 and 2 do not match and the oracle
\* throws, is unconfigured or returns an empty text, determineIntervention
\* still returns a focus_reminder of priority medium whose message is a
\* non-empty static string.
C22_OracleFailureFallsBack ==
    (/\ decision # Undecided
     /\ decideInput.state.focusLevel < 30
     /\ decideInput.state.distractionScore <= 70
     /\ ~(decideInput.state.sessionDuration > 90 * 60 * 1000
          /\ decideInput.state.breaksSinceFocus = 0)
     /\ decideInput.oracle \in {"throws", "unconfigured", "empty", "blank"})
    => /\ decision.type = "focus_reminder"
       /\ decision.priority = "medium"
       /\ decision.message \in { "Try focusing on one task at a time.",
                                 "Consider reviewing your goals or tasks." }

\* the oracle returned an empty text and the reminder carries the static
\* message
C22_Witness ==
    /\ decideInput.oracle = "empty"
    /\ decideInput.state.focusLevel = 29
    /\ decision.type = "focus_reminder"
    /\ decision.message = "Consider reviewing your goals or tasks."

----------------------------------------------------------------------------
(* Claims about storage failures *)

\* C21: a storage failure at any step of recording a visit is caught at the
\* call site: no rejection is left without a handler.
C21_StorageFailureCaught ==
    escaped = {}

----------------------------------------------------------------------------
(* Claims about the periodic check *)

\* C23: the oracle call is bounded in time: every run of checkAndIntervene
\* that has started eventually completes, also when the oracle never
\* responds.
C23_EvaluationCompletes ==
    (checks # << >>) ~> (checks = << >>)

\* C24: the periodic evaluation skips when it is already running: at most
\* one run of checkAndIntervene is in progress at any time.
C24_AtMostOneRunInProgress ==
    Cardinality({i \in DOMAIN checks : checks[i].kind = "mgr"}) <= 1

----------------------------------------------------------------------------
(* Claims about the overlay *)

\* C25: for every intervention the overlay shows, at most one
\* INTERVENTION_RESPONSE is sent, however many controls are clicked before
\* the exit timer fires.
C25_OneResponsePerShown ==
    \A id \in shown :
        Cardinality({k \in DOMAIN responses : responses[k].interventionId = id}) <= 1

----------------------------------------------------------------------------
(* Claims about the date of a visit *)

\* C26: the date of every persisted SiteVisit is the calendar day of its
\* startTime, also for a visit that is closed after midnight.
C26_DateIsDayOfStart ==
    \A i \in DOMAIN siteVisits :
        i \in DOMAIN recorded => siteVisits[i].date = DayOf(recorded[i].startTime)

----------------------------------------------------------------------------
(* Claims about analyzeUserState *)

\* the visits of the window of the call: the last min(20, n)
C27Window ==
    LET n == Len(callArgs.patterns)
    IN  {i \in 1..n : i > n - 20}

\* v is num/den rounded to the nearest integer, a tie going up
IsRounded(v, num, den) ==
    2 * den * v - den <= 2 * num /\ 2 * num < 2 * den * v + den

\* C27: analyzeUserState given no visit returns the previous state
\* unchanged; given n > 0 visits it sets focusLevel and distractionScore to
\* the rounded percentages of productive and of distracting visits among
\* the last min(20, n), each in 0..100, and leaves breaksSinceFocus and
\* lastBreakTime as they were.
C27_AnalyzeUserState ==
    callResult.fn = "analyzeUserState" =>
        LET patterns == callArgs.patterns
            w == Cardinality(C27Window)
            productive == Cardinality({i \in C27Window : patterns[i].category
                              \in {"productivity", "development", "learning"}})
            distracting == Cardinality({i \in C27Window : patterns[i].category
                              \in {"social", "entertainment"}})
            state == callResult.state
        IN  IF Len(patterns) = 0 THEN state = callArgs.state
            ELSE /\ IsRounded(state.focusLevel, 100 * productive, w)
                 /\ IsRounded(state.distractionScore, 100 * distracting, w)
                 /\ state.focusLevel \in 0..100
                 /\ state.distractionScore \in 0..100
                 /\ state.breaksSinceFocus = callArgs.state.breaksSinceFocus
                 /\ state.lastBreakTime = callArgs.state.lastBreakTime

\* a history of 22 visits whose two oldest, outside the window, are
\* distracting: the scores are those of the last 20
C27_Witness ==
    /\ callResult.fn = "analyzeUserState"
    /\ callArgs.patterns = Visits("social", 2) \o Visits("learning", 20)
    /\ callArgs.state.breaksSinceFocus = 2
    /\ callResult.state.focusLevel = 100
    /\ callResult.state.distractionScore = 0

\* the visit of the greatest timestamp among those of the last hour
C28Latest ==
    LET recent == {i \in DOMAIN callArgs.store :
                      callArgs.store[i].timestamp > callArgs.now - OneHour}
    IN  {i \in recent : \A j \in recent :
            callArgs.store[j].timestamp <= callArgs.store[i].timestamp}

\* C28: in the periodic check currentActivity is the category of the
\* chronologically last visit, whatever order the pattern store returns
\* its records in.
C28_CurrentActivityIsLatest ==
    callResult.fn = "checkAndIntervene" =>
        \A i \in C28Latest :
            callResult.state.currentActivity = callArgs.store[i].category

----------------------------------------------------------------------------
(* Claims about the weekly rollup *)

\* the dates of the stored records of first..last
StoredIn(first, last) == {d \in DOMAIN dailyStats : first <= d /\ d <= last}

RECURSIVE SumOver(_, _)
\* the sum of a field over the stored records of the dates in S
SumOver(S, field) ==
    IF S = {} THEN 0
    ELSE LET d == CHOOSE x \in S : TRUE
         IN  dailyStats[d][field] + SumOver(S \ {d}, field)

\* C29: calculateWeeklyStats(weekStart) folds the stored DailyStats with
\* dates in [weekStart, weekStart + 6 days]: the three totals and
\* totalInterventions are the sums of the daily fields, the average score
\* is the mean of the daily scores, and the acceptance rate is
\* sum(accepted) / sum(triggered), or 0 when nothing was triggered.
C29_WeeklyFoldOfSevenDays ==
    callResult.fn = "calculateWeeklyStats" =>
        LET week == StoredIn(callArgs.weekStart, callArgs.weekStart + 6)
            triggered == SumOver(week, "interventionsTriggered")
            rate == callResult.interventionAcceptanceRate
            average == callResult.averageProductivityScore
        IN  /\ callResult.weekEnd = callArgs.weekStart + 6
            /\ callResult.totalFocusTimeMs = SumOver(week, "focusTimeMs")
            /\ callResult.totalDistractionTimeMs = SumOver(week, "distractionTimeMs")
            /\ callResult.totalNeutralTimeMs = SumOver(week, "neutralTimeMs")
            /\ callResult.totalInterventions = triggered
            /\ week # {} =>
                  average.num * Cardinality(week)
                     = SumOver(week, "productivityScore") * average.den
            /\ IF triggered > 0
               THEN rate.num * triggered
                       = SumOver(week, "interventionsAccepted") * rate.den
               ELSE rate.num = 0

\* C30: whenever the week that was read holds at least one record, bestDay
\* and worstDay each name the date of one of its records, with the greatest
\* and the least of its scores (also when all scores are 0 or all are 100).
C30_BestAndWorstDayNamed ==
    callResult.fn = "calculateWeeklyStats" =>
        LET week == StoredIn(callResult.weekStart, callResult.weekEnd)
        IN  week # {} =>
              /\ callResult.bestDay.date \in week
              /\ callResult.worstDay.date \in week
              /\ \A d \in week :
                    /\ dailyStats[d].productivityScore <= callResult.bestDay.score
                    /\ dailyStats[d].productivityScore >= callResult.worstDay.score
              /\ dailyStats[callResult.bestDay.date].productivityScore
                    = callResult.bestDay.score
              /\ dailyStats[callResult.worstDay.date].productivityScore
                    = callResult.worstDay.score

----------------------------------------------------------------------------
(* Claims about getTopDistractions *)

RECURSIVE UrlTotal(_, _, _)
\* the sum of the durations of the distraction visits of date and url among
\* the first n persisted visits
UrlTotal(date, url, n) ==
    IF n = 0 THEN 0
    ELSE UrlTotal(date, url, n - 1)
         + (IF /\ siteVisits[n].date = date
               /\ siteVisits[n].url = url
               /\ siteVisits[n].category = "distraction"
            THEN siteVisits[n].durationMs ELSE 0)

\* the URLs with a distraction visit on date
DistractionUrls(date) ==
    {siteVisits[i].url : i \in {j \in DOMAIN siteVisits :
        siteVisits[j].date = date /\ siteVisits[j].category = "distraction"}}

\* C31: getTopDistractions(date, k) returns at most k entries, one per
\* distinct URL, ordered by non-increasing time; each entry's timeMs is the
\* sum of the durations of all persisted distraction visits of that date
\* and URL, and no omitted URL has a larger total than a returned one.
C31_TopDistractionsReflectVisits ==
    callResult.fn = "getTopDistractions" =>
        LET entries  == callResult.entries
            date     == callArgs.date
            total(u) == UrlTotal(date, u, Len(siteVisits))
            returned == {entries[i].url : i \in DOMAIN entries}
        IN  /\ Len(entries) <= callArgs.limit
            /\ Len(entries) = Min(callArgs.limit, Cardinality(DistractionUrls(date)))
            /\ returned \subseteq DistractionUrls(date)
            /\ \A i \in DOMAIN entries : \A j \in DOMAIN entries :
                  /\ i # j => entries[i].url # entries[j].url
                  /\ i < j => entries[i].timeMs >= entries[j].timeMs
            /\ \A i \in DOMAIN entries : entries[i].timeMs = total(entries[i].url)
            /\ \A u \in DistractionUrls(date) \ returned :
                  \A i \in DOMAIN entries : total(u) <= entries[i].timeMs

\* two URLs visited on the date, one of them twice, and the query's limit
\* of one leaves the smaller total out
C31_Witness ==
    /\ callResult.fn = "getTopDistractions"
    /\ callArgs.limit = 1
    /\ Cardinality(DistractionUrls(callArgs.date)) = 2
    /\ Len(callResult.entries) = 1
    /\ callResult.entries[1].timeMs = 24000

----------------------------------------------------------------------------
(* Claims about queueIntervention *)

\* C32: when a call of queueIntervention has returned, its intervention
\* has been delivered to the sink exactly if its priority is high or
\* critical, and it is in the queue.
C32_DeliveredIffHighPriority ==
    \A i \in DOMAIN checks :
        (checks[i].kind = "mgr" /\ checks[i].pc = "stamp") =>
            LET id == checks[i].intervention
            IN  /\ \/ \E q \in DOMAIN interventionQueue : interventionQueue[q] = id
                   \/ interventions[id].dismissed
                /\ id \in shown
                      <=> interventions[id].priority \in {"high", "critical"}

----------------------------------------------------------------------------
(* Claims about a date without recorded time *)

\* C33: when an intervention outcome is recorded on a record whose three
\* time buckets are all zero, the record is persisted with its counters
\* updated and with productivityScore at its prior value.
C33_ScoreKeptWhileNoTime ==
    [][\A i \in DOMAIN pending :
          ( /\ pending[i].kind = "intervention"
            /\ pending[i].pc = "put"
            /\ TotalTime(pending[i].stats) = 0
            /\ pending' = RemoveAt(pending, i)
            /\ escaped' = escaped ) =>
              LET prior  == pending[i].stats
                  date   == pending[i].date
              IN  /\ date \in DOMAIN dailyStats'
                  /\ dailyStats'[date].productivityScore = prior.productivityScore
                  /\ dailyStats'[date].productivityScore = 0
                  /\ dailyStats'[date].interventionsTriggered
                        = prior.interventionsTriggered + 1
                  /\ dailyStats'[date].interventionsAccepted
                        = prior.interventionsAccepted
                          + (IF pending[i].outcome = "accepted" THEN 1 ELSE 0)
                  /\ TotalTime(dailyStats'[date]) = 0]_vars

\* an accepted intervention was recorded on a date without recorded time
C33_Witness ==
    \E d \in DOMAIN dailyStats :
        /\ TotalTime(dailyStats[d]) = 0
        /\ dailyStats[d].interventionsAccepted = 1
        /\ dailyStats[d].productivityScore = 0

----------------------------------------------------------------------------
(* Claims about the order of aggregation and decision *)

RECURSIVE DistractionSum(_, _)
\* the sum of durationMs of the distraction visits persisted for date among
\* the first n
DistractionSum(date, n) ==
    IF n = 0 THEN 0
    ELSE DistractionSum(date, n - 1)
         + (IF siteVisits[n].date = date /\ siteVisits[n].category = "distraction"
            THEN siteVisits[n].durationMs ELSE 0)

\* C34: when recordSiteVisit has resolved and the intervention check is
\* about to read today's stats, the stored distractionTimeMs includes every
\* persisted distraction visit of today, the one just recorded too.
C34_AggregatedBeforeCheck ==
    \A i \in DOMAIN checks :
        (checks[i].kind = "sw" /\ checks[i].pc = "stats") =>
            GetDailyStats(today).distractionTimeMs
                = DistractionSum(today, Len(siteVisits))

----------------------------------------------------------------------------
(* Claims about the SHOW_INTERVENTION message *)

\* C35: after a SHOW_INTERVENTION message is received, the overlay's
\* current intervention is the value the sender placed in the message.
C35_OverlayStoresWhatWasSent ==
    callArgs.fn = "sendMessage" =>
        overlayIntervention = callArgs.message.intervention

----------------------------------------------------------------------------
(* Claims about sitesByCategory *)

\* the time bucket of a record that holds a category's time
BucketOf(stats, category) ==
    IF category = "productive" THEN stats.focusTimeMs
    ELSE IF category = "distraction" THEN stats.distractionTimeMs
    ELSE stats.neutralTimeMs

\* C36: in every stored DailyStats, sitesByCategory maps each category
\* with recorded time to the total time recorded for it, so that its
\* values sum to focusTimeMs + distractionTimeMs + neutralTimeMs.
C36_SitesByCategoryTotals ==
    \A d \in DOMAIN dailyStats :
        \A c \in Categories :
            BucketOf(dailyStats[d], c) > 0 =>
                /\ c \in DOMAIN dailyStats[d].sitesByCategory
                /\ dailyStats[d].sitesByCategory[c] = BucketOf(dailyStats[d], c)

----------------------------------------------------------------------------
(* Claims about the tab that is timed *)

\* C37: once a tab was activated and no handler is suspended, the tab
\* whose dwell is measured is the most recently activated tab, whichever
\* tabs finished loading meanwhile.
C37_TimedTabIsActiveTab ==
    (callArgs.fn = "onActivated" /\ handlers = << >>) =>
        currentTab.id = callArgs.tabId

----------------------------------------------------------------------------
(* Claims about what an update leaves alone *)

\* C38: the update of a visit for date d changes only d's record, and in
\* it only the matching time bucket and productivityScore; the update of
\* an intervention outcome leaves d's three time buckets unchanged; the
\* records of all other dates stay as they are.
C38_UpdateFrame ==
    [][\A i \in DOMAIN pending :
          (pending[i].pc = "put" /\ pending' = RemoveAt(pending, i)
           /\ escaped' = escaped) =>
              LET d      == pending[i].date
                  before == GetDailyStats(d)
                  after  == dailyStats'[d]
              IN  /\ \A e \in DOMAIN dailyStats \ {d} :
                        e \in DOMAIN dailyStats' /\ dailyStats'[e] = dailyStats[e]
                  /\ IF pending[i].kind = "visit"
                     THEN /\ after.interventionsTriggered = before.interventionsTriggered
                          /\ after.interventionsAccepted = before.interventionsAccepted
                          /\ after.interventionsDismissed = before.interventionsDismissed
                          /\ after.interventionsSnoozed = before.interventionsSnoozed
                          /\ \A c \in Categories \ {pending[i].category} :
                                BucketOf(after, c) = BucketOf(before, c)
                     ELSE \A c \in Categories :
                             BucketOf(after, c) = BucketOf(before, c)]_vars

\* C39: analyzeIntent returns a cached intent without calling the oracle only
\* when less than 5 minutes have passed since the last analysis, and the
\* cache holds only intents parsed from a successful oracle response: neither
\* the error intent nor the idle intent is stored in the cache or returned
\* from it.
IsErrorIntent(intent) == intent.description = "Unable to determine intent"

IsIdleIntent(intent) == intent.description = "No recent activity"

ReturnedFromCache ==
    /\ callResult.fn = "analyzeIntent"
    /\ ~callResult.awaiting
    /\ callResult.cached

C39_CacheHoldsParsedIntents ==
    /\ ReturnedFromCache => callArgs.now - lastAnalysis < FiveMinutes
    /\ currentIntent # NoIntent =>
          ~IsErrorIntent(currentIntent) /\ ~IsIdleIntent(currentIntent)
    /\ ReturnedFromCache =>
          ~IsErrorIntent(callResult.intent) /\ ~IsIdleIntent(callResult.intent)

\* the parts of C39 that the engine keeps: the cache is used only within 5
\* minutes of the last stored analysis, and the idle intent is never cached
C39_CacheWindowAndIdle ==
    /\ ReturnedFromCache => callArgs.now - lastAnalysis < FiveMinutes
    /\ currentIntent # NoIntent => ~IsIdleIntent(currentIntent)

\* an unparseable answer was cached and then returned from the cache
C39_ErrorIntentFromCache ==
    /\ ReturnedFromCache
    /\ IsErrorIntent(callResult.intent)

\* C40: when the active tab is left after more than 1 second, the measured
\* duration is written to a pattern of that tab, never to a pattern created
\* by navigation in a different tab, and a pattern's duration is written at
\* most once.
C40_DurationGoesToOwnTab ==
    \A i \in DOMAIN sessionPatterns :
        /\ sessionPatterns[i].writes <= 1
        /\ sessionPatterns[i].writes > 0 =>
              sessionPatterns[i].writtenFor = sessionPatterns[i].tab

\* the part of C40 that the monitor keeps: a duration is written at most
\* once, and only a duration above 1 second
C40_WrittenAtMostOnce ==
    \A i \in DOMAIN sessionPatterns :
        /\ sessionPatterns[i].writes <= 1
        /\ sessionPatterns[i].writes > 0 =>
              sessionPatterns[i].duration > MinDurationMs

\* a pattern created in one tab holds the time spent on another
C40_DurationOfAnotherTab ==
    \E i \in DOMAIN sessionPatterns :
        /\ sessionPatterns[i].writes > 0
        /\ sessionPatterns[i].writtenFor # sessionPatterns[i].tab

=============================================================================
